---------------------------- MODULE Spec2Model ----------------------------
(***************************************************************************)
(* A model of the ELF structural decoder of rust-elf.                      *)
(*                                                                         *)
(* The decoders read a shared in-memory byte buffer through a cursor       *)
(* (Reader = Cursor<Vec<u8>>).  The reader is modelled byte for byte: a    *)
(* buffer is a sequence of numbers in 0..255 and every fixed-width field   *)
(* is decoded little-endian from the bytes under the cursor.  A decoder    *)
(* is a small state machine: one action per loop iteration or per block    *)
(* of straight-line code, with `pc` holding its position.                  *)
(*                                                                         *)
(* Each decoder has its own specification (SpecFileHeader, SpecTables,     *)
(* ...) over the same variables; the arguments a decoder is called with    *)
(* are drawn from bounded sets in that specification's Init.               *)
(***************************************************************************)
EXTENDS Integers, Sequences, FiniteSets, TLC

VARIABLES
    reader,   \* the Reader: [buf |-> bytes of the file, pos |-> cursor]
    pc,       \* position of the decoder under way
    args,     \* the arguments the decoder was called with (never change)
    locals,   \* the decoder's local variables, named as in the source
    result    \* what the decoder returned ("none" until it returns)

vars == <<reader, pc, args, locals, result>>

NoResult == [kind |-> "none"]
Panic(why) == [kind |-> "panic", why |-> why]
Err(e) == [kind |-> "Err", error |-> e]
Ok(v) == [kind |-> "Ok", value |-> v]
IOError == [error |-> "IOError", what |-> "UnexpectedEof"]
\* The return value of a function that returns no Result.
Return(v) == [kind |-> "Return", value |-> v]
None == <<"None">>
Some(v) == <<"Some", v>>

-----------------------------------------------------------------------------
(* Generic helpers on sequences.                                           *)

RECURSIVE Concat(_)
Concat(ss) == IF ss = <<>> THEN <<>> ELSE Head(ss) \o Concat(Tail(ss))

RECURSIVE SumSeq(_)
SumSeq(s) == IF s = <<>> THEN 0 ELSE Head(s) + SumSeq(Tail(s))

Zeros(n) == [i \in 1..n |-> 0]

Take(s, n) == SubSeq(s, 1, IF n < Len(s) THEN n ELSE Len(s))

-----------------------------------------------------------------------------
(* The Reader: std::io::Cursor<Vec<u8>> with byteorder's little-endian     *)
(* reads.                                                                  *)

\* Bytes left between the cursor and the end of the buffer.  A cursor may
\* stand beyond the end (seek never fails); nothing is left there.
Remaining(r) == IF r.pos >= Len(r.buf) THEN 0 ELSE Len(r.buf) - r.pos

\* read_exact / read_uN succeed iff n bytes are left.
CanRead(r, n) == Remaining(r) >= n

\* The n bytes at absolute offset p of a buffer (p counted from 0).
BytesAt(buf, p, n) == SubSeq(buf, p + 1, p + n)

\* The value of a little-endian byte string (read_u16/u32/u64::<LittleEndian>).
RECURSIVE FromLE(_)
FromLE(bytes) ==
    IF bytes = <<>> THEN 0 ELSE Head(bytes) + 256 * FromLE(Tail(bytes))

\* One fixed-width read at offset p.
ReadAt(buf, p, n) == FromLE(BytesAt(buf, p, n))

\* Consecutive fixed-width reads starting at offset p: the values, in order.
RECURSIVE ReadFields(_, _, _)
ReadFields(buf, p, widths) ==
    IF widths = <<>> THEN <<>>
    ELSE <<ReadAt(buf, p, Head(widths))>>
             \o ReadFields(buf, p + Head(widths), Tail(widths))

\* seek(SeekFrom::Start(p))
SeekStart(r, p) == [r EXCEPT !.pos = p]

\* The cursor after n bytes were read.
Advance(r, n) == [r EXCEPT !.pos = r.pos + n]

\* The cursor after a read that failed for lack of bytes: Cursor::read_exact
\* leaves the position where it was or moves it to the end of the buffer,
\* depending on the version of the standard library.
AfterEof(r) == {[r EXCEPT !.pos = p] : p \in {r.pos, Len(r.buf)}}

\* reader.take(n).read_to_end(): the bytes from the cursor, at most n of
\* them, fewer when the buffer ends first.
TakeToEnd(r, n) ==
    BytesAt(r.buf, r.pos, IF n < Remaining(r) THEN n ELSE Remaining(r))

-----------------------------------------------------------------------------
(* Building inputs: the little-endian encoding of a value in n bytes.      *)

RECURSIVE ToLE(_, _)
ToLE(v, n) == IF n = 0 THEN <<>> ELSE <<v % 256>> \o ToLE(v \div 256, n - 1)

\* The encoding of a sequence of values with the given field widths.
RECURSIVE Encode(_, _)
Encode(values, widths) ==
    IF widths = <<>> THEN <<>>
    ELSE ToLE(Head(values), Head(widths)) \o Encode(Tail(values), Tail(widths))

-----------------------------------------------------------------------------
(* file.rs: the file header.                                               *)

ELF_MAGIC == <<127, 69, 76, 70>>

Variant(name) == <<name>>
Raw(name, value) == <<name, value>>

FileClassNew(value) ==
    CASE value = 0 -> Variant("None")
      [] value = 1 -> Variant("ElfClass32")
      [] value = 2 -> Variant("ElfClass64")
      [] OTHER -> Raw("Invalid", value)

EncodingNew(value) ==
    CASE value = 0 -> Variant("None")
      [] value = 1 -> Variant("LittleEndian")
      [] value = 2 -> Variant("BigEndian")
      [] OTHER -> Raw("Invalid", value)

OsAbiNew(value) ==
    CASE value = 0 -> Variant("UnixVSystem")
      [] value = 1 -> Variant("HpUx")
      [] value = 2 -> Variant("NetBsd")
      [] value = 3 -> Variant("GnuElfExtensions")
      [] value = 6 -> Variant("SunSolaris")
      [] value = 7 -> Variant("IbmAix")
      [] value = 8 -> Variant("SgiIrix")
      [] value = 9 -> Variant("FreeBsd")
      [] value = 10 -> Variant("CompaqTru64Unix")
      [] value = 11 -> Variant("NovellModesto")
      [] value = 12 -> Variant("OpenBsd")
      [] value = 64 -> Variant("ArmEabi")
      [] value = 97 -> Variant("Arm")
      [] value = 255 -> Variant("Standalone")
      [] OTHER -> Raw("Invalid", value)

ObjectTypeNew(value) ==
    CASE value = 0 -> Variant("NoFileType")
      [] value = 1 -> Variant("RelocatableFile")
      [] value = 2 -> Variant("ExecutableFile")
      [] value = 3 -> Variant("SharedObjectFile")
      [] value = 4 -> Variant("CoreFile")
      [] OTHER -> Raw("Invalid", value)

VersionNew(value) ==
    CASE value = 0 -> Variant("Unspecified")
      [] value = 1 -> Variant("Current")
      [] OTHER -> Raw("Invalid", value)

\* The widths of the fields ElfFileHeader::new reads after the magic, in
\* the order it reads them: class, encoding, version byte, OS/ABI, ABI
\* version, 7 bytes of padding, type, machine, version, entry, phoff, shoff,
\* flags, ehsize, phentsize, phnum, shentsize, shnum, shstrndx.
FileHeaderWidths ==
    <<1, 1, 1, 1, 1, 7, 2, 2, 4, 8, 8, 8, 4, 2, 2, 2, 2, 2, 2>>

\* The ElfFileHeader built from the magic, the values of those fields and the
\* 7 padding bytes (kept as bytes).
MkFileHeader(e_magic, v, e_padding_) ==
    [e_magic |-> e_magic,
     e_class |-> FileClassNew(v[1]),
     e_encoding |-> EncodingNew(v[2]),
     e_version_ |-> v[3],
     e_os_abi |-> OsAbiNew(v[4]),
     e_os_abi_version |-> v[5],
     e_padding_ |-> e_padding_,
     e_type |-> ObjectTypeNew(v[7]),
     e_machine |-> v[8],
     e_version |-> VersionNew(v[9]),
     e_entry |-> v[10],
     e_phoff |-> v[11],
     e_shoff |-> v[12],
     e_flags |-> v[13],
     e_ehsize |-> v[14],
     e_phentsize |-> v[15],
     e_phnum |-> v[16],
     e_shentsize |-> v[17],
     e_shnum |-> v[18],
     e_shstrndx |-> v[19]]

\* The comparison of the magic bytes read with ELF_MAGIC.
MagicMismatchOneByte(e_magic) == e_magic[1] # ELF_MAGIC[1]

MagicMismatch(e_magic) ==
    \/ e_magic[1] # ELF_MAGIC[1]
    \/ e_magic[2] # ELF_MAGIC[2]
    \/ e_magic[3] # ELF_MAGIC[3]
    \/ e_magic[4] # ELF_MAGIC[4]

\* ElfFileHeader::new, first part: read the 4 magic bytes and compare.
FH_Magic ==
    /\ pc = "fh_magic"
    /\ UNCHANGED args
    /\ IF ~CanRead(reader, 4)
       THEN /\ reader' \in AfterEof(reader)
            /\ result' = Err(IOError)
            /\ pc' = "done"
            /\ UNCHANGED locals
       ELSE LET e_magic == BytesAt(reader.buf, reader.pos, 4) IN
            /\ reader' = Advance(reader, 4)
            /\ locals' = [e_magic |-> e_magic]
            /\ IF MagicMismatch(e_magic)
               THEN /\ result' = Err([error |-> "ElfMagicMismatchError",
                                      magic |-> e_magic])
                    /\ pc' = "done"
               ELSE /\ pc' = "fh_fields"
                    /\ UNCHANGED result

\* ElfFileHeader::new, second part: the fixed-width fields after the magic.
FH_Fields ==
    /\ pc = "fh_fields"
    /\ UNCHANGED <<args, locals>>
    /\ pc' = "done"
    /\ IF ~CanRead(reader, SumSeq(FileHeaderWidths))
       THEN /\ reader' \in AfterEof(reader)
            /\ result' = Err(IOError)
       ELSE /\ reader' = Advance(reader, SumSeq(FileHeaderWidths))
            /\ result' = Ok(MkFileHeader(locals.e_magic,
                              ReadFields(reader.buf, reader.pos,
                                         FileHeaderWidths),
                              BytesAt(reader.buf, reader.pos + 5, 7)))

\* --- inputs of SpecFileHeader ---

\* The buffers begin with up to 4 bytes, each the right magic byte or one of
\* WrongBytes, followed by a prefix of an encoded header body.
WrongBytes == {0, 69}

MagicChoices(n) ==
    {m \in [1..n -> WrongBytes \cup {127, 76, 70}] :
        \A i \in 1..n : m[i] = ELF_MAGIC[i] \/ m[i] \in WrongBytes}

\* Two header bodies: class, encoding, version byte, OS/ABI, ABI version,
\* padding, type, machine, version, entry, phoff, shoff, flags, ehsize,
\* phentsize, phnum, shentsize, shnum, shstrndx.
HeaderBodies ==
    {Encode(<<2, 1, 1, 0, 0, 0, 3, 62, 1, 4096, 64, 512, 0, 64, 56, 2, 64, 3, 2>>,
            FileHeaderWidths),
     Encode(<<9, 2, 0, 5, 1, 0, 7, 0, 3, 0, 0, 0, 1, 64, 0, 0, 0, 0, 0>>,
            FileHeaderWidths)}

\* How many bytes of the body the buffer holds (60 is all of it), and how
\* many bytes may follow it.
BodyLengths == {0, 1, 12, 59, 60}
MaxExtra == 1

InitFileHeader ==
    /\ pc = "fh_magic"
    /\ args = [op |-> "ElfFileHeader::new"]
    /\ locals = [e_magic |-> <<>>]
    /\ result = NoResult
    /\ \E n \in 0..4 : \E m \in MagicChoices(n) :
       \E body \in HeaderBodies : \E len \in BodyLengths : \E extra \in 0..MaxExtra :
          /\ n < 4 => (len = 0 /\ extra = 0)
          /\ len < 60 => extra = 0
          /\ reader = [buf |-> m \o Take(body, len) \o Zeros(extra), pos |-> 0]

NextFileHeader == FH_Magic \/ FH_Fields

SpecFileHeader == InitFileHeader /\ [][NextFileHeader]_vars

\* C1: when the first 4 bytes of the buffer are not 0x7F 'E' 'L' 'F',
\* ElfFileHeader::new returns the magic-mismatch error carrying exactly those
\* 4 bytes, with the cursor right after them (no header field was read) and
\* no file header; it never goes on to read the fields.
C1_MagicMismatch ==
    (Len(reader.buf) >= 4 /\ BytesAt(reader.buf, 0, 4) # ELF_MAGIC)
        => /\ pc # "fh_fields"
           /\ pc = "done" =>
                /\ result = Err([error |-> "ElfMagicMismatchError",
                                 magic |-> BytesAt(reader.buf, 0, 4)])
                /\ reader.pos = 4

\* A run that was given a wrong magic (with a full header after it) and
\* has returned.
C1_Witness ==
    /\ pc = "done"
    /\ Len(reader.buf) >= 64
    /\ BytesAt(reader.buf, 0, 4) = <<127, 69, 76, 0>>
    /\ result.kind = "Err"

-----------------------------------------------------------------------------
(* symbols.rs: the string table (construction; lookup is further below).   *)

\* StringTable::new: seek to sh_offset and read up to sh_size bytes.
StringTableNew(hdr, r) ==
    [buffer |-> TakeToEnd(SeekStart(r, hdr.sh_offset), hdr.sh_size)]

\* The reader after StringTable::new.
AfterStringTableNew(hdr, r) ==
    Advance(SeekStart(r, hdr.sh_offset),
            Len(TakeToEnd(SeekStart(r, hdr.sh_offset), hdr.sh_size)))

\* StringTable::empty
StringTableEmpty == [buffer |-> <<>>]

-----------------------------------------------------------------------------
(* section.rs and program.rs: the header tables.                           *)

SectionHeaderTypeNew(value) ==
    CASE value = 0 -> Variant("Null")
      [] value = 1 -> Variant("Data")
      [] value = 2 -> Variant("Symtab")
      [] value = 3 -> Variant("Strtab")
      [] value = 4 -> Variant("Rela")
      [] value = 5 -> Variant("Hash")
      [] value = 6 -> Variant("Dynamic")
      [] value = 7 -> Variant("Note")
      [] value = 8 -> Variant("Bss")
      [] value = 9 -> Variant("Rel")
      [] value = 11 -> Variant("DynSym")
      [] value = 14 -> Variant("InitArray")
      [] value = 15 -> Variant("FiniArray")
      [] value = 16 -> Variant("PreInitArray")
      [] value = 17 -> Variant("Group")
      [] value = 18 -> Variant("SymtabShndx")
      [] value = 1879048181 -> Variant("GnuAttributes")
      [] value = 1879048182 -> Variant("GnuHash")
      [] value = 1879048183 -> Variant("GnuLibList")
      [] value = 1879048184 -> Variant("Checksum")
      [] value = 1879048189 -> Variant("GnuVerDef")
      [] value = 1879048190 -> Variant("GnuVerNeed")
      [] value = 1879048191 -> Variant("GnuVerSym")
      [] OTHER -> Raw("Unknown", value)

SegmentTypeNewDroppingValue(value) ==
    CASE value = 0 -> Variant("Null")
      [] value = 1 -> Variant("Load")
      [] value = 2 -> Variant("Dynamic")
      [] value = 3 -> Variant("Interp")
      [] value = 4 -> Variant("Note")
      [] value = 5 -> Variant("ShLib")
      [] value = 6 -> Variant("ProgramHeader")
      [] value = 7 -> Variant("ThreadLocalStorage")
      [] value = 1685382480 -> Variant("GnuEhFrame")
      [] value = 1685382481 -> Variant("GnuStack")
      [] value = 1685382482 -> Variant("GnuRelRo")
      [] OTHER -> Raw("Unknown", 0)

SegmentTypeNew(value) ==
    CASE value = 0 -> Variant("Null")
      [] value = 1 -> Variant("Load")
      [] value = 2 -> Variant("Dynamic")
      [] value = 3 -> Variant("Interp")
      [] value = 4 -> Variant("Note")
      [] value = 5 -> Variant("ShLib")
      [] value = 6 -> Variant("ProgramHeader")
      [] value = 7 -> Variant("ThreadLocalStorage")
      [] value = 1685382480 -> Variant("GnuEhFrame")
      [] value = 1685382481 -> Variant("GnuStack")
      [] value = 1685382482 -> Variant("GnuRelRo")
      [] OTHER -> Raw("Unknown", value)

\* The fields SectionHeader::new reads, in order: sh_name, sh_type, sh_flags,
\* sh_addr, sh_offset, sh_size, sh_link, sh_info, sh_addralign, sh_entsize.
SectionHeaderWidths == <<4, 4, 8, 8, 8, 8, 4, 4, 8, 8>>

MkSectionHeader(v) ==
    [sh_name |-> v[1],
     sh_type |-> SectionHeaderTypeNew(v[2]),
     sh_flags |-> v[3],
     sh_addr |-> v[4],
     sh_offset |-> v[5],
     sh_size |-> v[6],
     sh_link |-> v[7],
     sh_info |-> v[8],
     sh_addralign |-> v[9],
     sh_entsize |-> v[10]]

\* The section header whose record starts at offset p.
SectionHeaderAt(buf, p) == MkSectionHeader(ReadFields(buf, p, SectionHeaderWidths))

\* The fields ProgramHeader::new reads, in order: p_type, p_flags, p_offset,
\* p_vaddr, p_paddr, p_filesz, p_memsiz, p_align.
ProgramHeaderWidths == <<4, 4, 8, 8, 8, 8, 8, 8>>

MkProgramHeader(v) ==
    [p_type |-> SegmentTypeNew(v[1]),
     p_flags |-> v[2],
     p_offset |-> v[3],
     p_vaddr |-> v[4],
     p_paddr |-> v[5],
     p_filesz |-> v[6],
     p_memsiz |-> v[7],
     p_align |-> v[8]]

ProgramHeaderAt(buf, p) == MkProgramHeader(ReadFields(buf, p, ProgramHeaderWidths))

\* The test of the two table loops: `while section_no < count`.
TableLoopOffByOne(section_no, count) == section_no <= count

TableLoopGuard(section_no, count) == section_no < count

\* SectionHeaders::new up to the loop: seek to e_shoff, no header yet.
SH_Seek ==
    /\ pc = "sh_start"
    /\ reader' = SeekStart(reader, args.header.e_shoff)
    /\ locals' = [headers |-> <<>>, section_no |-> 0]
    /\ pc' = "sh_loop"
    /\ UNCHANGED <<args, result>>

\* One iteration of the loop: SectionHeader::new reads the next record (its
\* reads are unwrapped) and the header is pushed.
SH_ReadHeader ==
    /\ pc = "sh_loop"
    /\ TableLoopGuard(locals.section_no, args.header.e_shnum)
    /\ UNCHANGED args
    /\ IF ~CanRead(reader, SumSeq(SectionHeaderWidths))
       THEN /\ reader' \in AfterEof(reader)
            /\ result' = Panic("unwrap on UnexpectedEof")
            /\ pc' = "done"
            /\ UNCHANGED locals
       ELSE /\ reader' = Advance(reader, SumSeq(SectionHeaderWidths))
            /\ locals' = [headers |-> Append(locals.headers,
                                        SectionHeaderAt(reader.buf, reader.pos)),
                          section_no |-> locals.section_no + 1]
            /\ UNCHANGED <<pc, result>>

\* `if header.e_shnum > 0`
HasSectionsAlways(header) == TRUE

HasSections(header) == header.e_shnum > 0

\* After the loop: load the section-name string table and return.
SH_Strtab ==
    /\ pc = "sh_loop"
    /\ ~TableLoopGuard(locals.section_no, args.header.e_shnum)
    /\ pc' = "done"
    /\ UNCHANGED <<args, locals>>
    /\ IF HasSections(args.header)
       THEN IF args.header.e_shstrndx >= Len(locals.headers)
            THEN /\ result' = Panic("index out of bounds")
                 /\ UNCHANGED reader
            ELSE LET hdr == locals.headers[args.header.e_shstrndx + 1] IN
                 /\ result' = Return([headers |-> locals.headers,
                                      strtab |-> StringTableNew(hdr, reader)])
                 /\ reader' = AfterStringTableNew(hdr, reader)
       ELSE /\ result' = Return([headers |-> locals.headers,
                                 strtab |-> StringTableEmpty])
            /\ UNCHANGED reader

\* ProgramHeaders::new up to the loop: seek to e_phoff.
PH_Seek ==
    /\ pc = "ph_start"
    /\ reader' = SeekStart(reader, args.header.e_phoff)
    /\ locals' = [headers |-> <<>>, section_no |-> 0]
    /\ pc' = "ph_loop"
    /\ UNCHANGED <<args, result>>

\* One iteration: ProgramHeader::new reads the next record.
PH_ReadHeader ==
    /\ pc = "ph_loop"
    /\ TableLoopGuard(locals.section_no, args.header.e_phnum)
    /\ UNCHANGED args
    /\ IF ~CanRead(reader, SumSeq(ProgramHeaderWidths))
       THEN /\ reader' \in AfterEof(reader)
            /\ result' = Panic("unwrap on UnexpectedEof")
            /\ pc' = "done"
            /\ UNCHANGED locals
       ELSE /\ reader' = Advance(reader, SumSeq(ProgramHeaderWidths))
            /\ locals' = [headers |-> Append(locals.headers,
                                        ProgramHeaderAt(reader.buf, reader.pos)),
                          section_no |-> locals.section_no + 1]
            /\ UNCHANGED <<pc, result>>

\* After the loop: return the headers.
PH_Return ==
    /\ pc = "ph_loop"
    /\ ~TableLoopGuard(locals.section_no, args.header.e_phnum)
    /\ pc' = "done"
    /\ result' = Return([headers |-> locals.headers])
    /\ UNCHANGED <<args, locals, reader>>

\* --- inputs of SpecTables ---

\* At most MaxRecords records are in a table and asked for.
MaxRecords == 2

\* Section records: an all-zero (Null) record, the kind a sentinel-driven
\* loop would stop at; a string table at offset 2 of 6 bytes; a dynamic
\* section.
SectionRecords ==
    {Encode(<<0, 0, 0, 0, 0, 0, 0, 0, 0, 0>>, SectionHeaderWidths),
     Encode(<<1, 3, 0, 0, 2, 6, 0, 0, 1, 0>>, SectionHeaderWidths),
     Encode(<<9, 6, 3, 4096, 300, 32, 1, 0, 8, 16>>, SectionHeaderWidths)}

\* Program records: an all-zero (Null) record, a Load and an Interp segment.
ProgramRecords ==
    {Encode(<<0, 0, 0, 0, 0, 0, 0, 0>>, ProgramHeaderWidths),
     Encode(<<1, 5, 0, 4096, 4096, 200, 200, 4096>>, ProgramHeaderWidths),
     Encode(<<3, 4, 2, 0, 0, 5, 5, 1>>, ProgramHeaderWidths)}

\* Where the table starts in the buffer, and whether the last record of the
\* buffer lacks its final byte.
TableOffsets == {0, 3}

TableFiles(records) ==
    {[off |-> off, buf |-> Zeros(off) \o Concat(t)] :
        off \in TableOffsets,
        t \in UNION {[1..k -> records] : k \in 0..MaxRecords}}

TableHeader(off, num, strndx) ==
    [e_shoff |-> off, e_shnum |-> num, e_shstrndx |-> strndx,
     e_phoff |-> off, e_phnum |-> num]

InitTables ==
    /\ locals = [headers |-> <<>>, section_no |-> 0]
    /\ result = NoResult
    /\ \/ /\ pc = "sh_start"
          /\ \E f \in TableFiles(SectionRecords) :
             \E num \in 0..MaxRecords : \E strndx \in 0..MaxRecords :
             \E cut \in {0, 1} : \E start \in {0, 7} :
               /\ cut <= Len(f.buf)
               /\ reader = [buf |-> SubSeq(f.buf, 1, Len(f.buf) - cut),
                            pos |-> start]
               /\ args = [op |-> "SectionHeaders::new",
                          header |-> TableHeader(f.off, num, strndx)]
       \/ /\ pc = "ph_start"
          /\ \E f \in TableFiles(ProgramRecords) :
             \E num \in 0..MaxRecords : \E cut \in {0, 1} : \E start \in {0, 7} :
               /\ cut <= Len(f.buf)
               /\ reader = [buf |-> SubSeq(f.buf, 1, Len(f.buf) - cut),
                            pos |-> start]
               /\ args = [op |-> "ProgramHeaders::new",
                          header |-> TableHeader(f.off, num, 0)]

NextTables ==
    \/ SH_Seek \/ SH_ReadHeader \/ SH_Strtab
    \/ PH_Seek \/ PH_ReadHeader \/ PH_Return

SpecTables == InitTables /\ [][NextTables]_vars

\* C2: the header tables are count-driven.  While SectionHeaders::new or
\* ProgramHeaders::new runs, the headers read so far are the first
\* section_no consecutive records of the table (64 bytes each from e_shoff,
\* 56 bytes each from e_phoff), in file order; what it returns holds exactly
\* e_shnum (e_phnum) headers, whatever the records contain: an all-zero
\* record ends nothing.
C2_CountDriven ==
    /\ pc \in {"sh_loop", "ph_loop"} =>
          /\ Len(locals.headers) = locals.section_no
          /\ locals.section_no <=
                (IF pc = "sh_loop" THEN args.header.e_shnum
                                   ELSE args.header.e_phnum)
          /\ \A i \in 1..Len(locals.headers) :
                locals.headers[i] =
                   IF pc = "sh_loop"
                   THEN SectionHeaderAt(reader.buf,
                                        args.header.e_shoff + 64 * (i - 1))
                   ELSE ProgramHeaderAt(reader.buf,
                                        args.header.e_phoff + 56 * (i - 1))
    /\ (pc = "done" /\ result.kind = "Return") =>
          IF args.op = "SectionHeaders::new"
          THEN /\ Len(result.value.headers) = args.header.e_shnum
               /\ \A i \in 1..args.header.e_shnum :
                     result.value.headers[i] =
                        SectionHeaderAt(reader.buf,
                                        args.header.e_shoff + 64 * (i - 1))
          ELSE /\ Len(result.value.headers) = args.header.e_phnum
               /\ \A i \in 1..args.header.e_phnum :
                     result.value.headers[i] =
                        ProgramHeaderAt(reader.buf,
                                        args.header.e_phoff + 56 * (i - 1))

\* SectionHeaders::new has returned two headers of which the first is the
\* all-zero record and the second is not.
C2_Witness ==
    /\ pc = "done"
    /\ args.op = "SectionHeaders::new"
    /\ result.kind = "Return"
    /\ args.header.e_shnum = 2
    /\ Len(result.value.headers) = 2
    /\ result.value.headers[1].sh_type = Variant("Null")
    /\ result.value.headers[2].sh_type = Variant("Strtab")

-----------------------------------------------------------------------------
(* symbols.rs: StringTable::get.                                           *)

\* `*ch as char`: the character whose code point is the byte's value.  A
\* string is modelled as the sequence of its characters' code points.
AsChar(byte) == byte

\* The loop of StringTable::get over the slice `sub`: push every byte as a
\* character until a NUL byte or the end of the slice.
RECURSIVE ScanSkippingNul(_)
ScanSkippingNul(sub) ==
    IF sub = <<>> THEN <<>>
    ELSE IF Head(sub) # 0
         THEN <<AsChar(Head(sub))>> \o ScanSkippingNul(Tail(sub))
         ELSE ScanSkippingNul(Tail(sub))

RECURSIVE ScanUntilNul(_)
ScanUntilNul(sub) ==
    IF sub = <<>> THEN <<>>
    ELSE IF Head(sub) # 0
         THEN <<AsChar(Head(sub))>> \o ScanUntilNul(Tail(sub))
         ELSE <<>>

\* StringTable::get(offset) for an offset the slice `buffer[offset..]`
\* accepts (offset <= len); a larger offset panics.
StringTableGet(table, offset) ==
    ScanUntilNul(SubSeq(table.buffer, offset + 1, Len(table.buffer)))

GetPanics(table, offset) == offset > Len(table.buffer)

\* A call of get on the table `self`; the call and what it returned are
\* appended to the log of calls.
ST_Get(offset) ==
    /\ pc = "st_ready"
    /\ Len(locals.calls) < args.max_calls
    /\ UNCHANGED <<args, reader>>
    /\ IF GetPanics(locals.self, offset)
       THEN /\ result' = Panic("range start index out of range")
            /\ pc' = "done"
            /\ UNCHANGED locals
       ELSE LET value == StringTableGet(locals.self, offset) IN
            /\ result' = Return(value)
            /\ locals' = [locals EXCEPT
                            !.calls = Append(@, [offset |-> offset,
                                                 value |-> value])]
            /\ UNCHANGED pc

\* --- inputs of SpecStringTable ---

\* Tables of at most MaxStrLen bytes over NUL and two letters, and the
\* tables that hold "libc" with and without its NUL; at most MaxCalls calls.
MaxStrLen == 4
MaxCalls == 2
TableBytes == {0, 105, 108}
LibcTables == {<<108, 105, 98, 99, 0>>, <<0, 108, 105, 98, 99>>}

StringTables ==
    UNION {[1..n -> TableBytes] : n \in 0..MaxStrLen} \cup LibcTables

InitStringTable ==
    /\ pc = "st_ready"
    /\ result = NoResult
    /\ reader = [buf |-> <<>>, pos |-> 0]
    /\ \E b \in StringTables :
          /\ args = [op |-> "StringTable::get", strtab |-> [buffer |-> b],
                     max_calls |-> MaxCalls]
          /\ locals = [self |-> [buffer |-> b], calls |-> <<>>]

NextStringTable == \E offset \in 0..(Len(locals.self.buffer) + 1) : ST_Get(offset)

SpecStringTable == InitStringTable /\ [][NextStringTable]_vars

\* C3: every call get(offset) with offset inside the table returned exactly
\* the bytes from offset up to the first NUL at or after it, or up to the end
\* of the buffer when there is none; when the byte at offset is not NUL,
\* get(offset + 1) is get(offset) without its first character; two calls
\* with the same offset returned the same string; the table did not change.
C3_StringTableGet ==
    LET buffer == args.strtab.buffer IN
    /\ locals.self = args.strtab
    /\ \A k \in 1..Len(locals.calls) :
          LET c == locals.calls[k]
              n == Len(c.value) IN
          /\ c.offset + n <= Len(buffer)
          /\ \A i \in 1..n : c.value[i] = buffer[c.offset + i] /\ c.value[i] # 0
          /\ c.offset + n = Len(buffer) \/ buffer[c.offset + n + 1] = 0
    /\ \A k, m \in 1..Len(locals.calls) :
          LET c == locals.calls[k]
              d == locals.calls[m] IN
          /\ (/\ d.offset = c.offset + 1
              /\ c.offset < Len(buffer)
              /\ buffer[c.offset + 1] # 0) => d.value = Tail(c.value)
          /\ d.offset = c.offset => d.value = c.value

\* get(0) returned "libc" and get(1) returned "ibc" on the table "libc\0".
C3_Witness ==
    /\ args.strtab.buffer = <<108, 105, 98, 99, 0>>
    /\ Len(locals.calls) = 2
    /\ locals.calls[1] = [offset |-> 0, value |-> <<108, 105, 98, 99>>]
    /\ locals.calls[2] = [offset |-> 1, value |-> <<105, 98, 99>>]

-----------------------------------------------------------------------------
(* symbols.rs: symbols and symbol tables.                                  *)

\* Bitwise and (`&`) of two unsigned numbers.
RECURSIVE BitAnd(_, _)
BitAnd(a, b) ==
    IF a = 0 \/ b = 0 THEN 0
    ELSE (a % 2) * (b % 2) + 2 * BitAnd(a \div 2, b \div 2)

\* Logical shift right (`>>`) of an unsigned number.
ShiftRight(a, n) == a \div (2 ^ n)

\* SymbolType::new: matches on `info & 0xf`.
SymbolTypeNewHighNibble(info) ==
    LET t == ShiftRight(info, 4) IN
    CASE t = 0 -> Variant("NoType")
      [] t = 1 -> Variant("Object")
      [] t = 2 -> Variant("Func")
      [] t = 3 -> Variant("Section")
      [] t = 4 -> Variant("File")
      [] t = 5 -> Variant("Common")
      [] t = 6 -> Variant("Tls")
      [] t = 10 -> Variant("GnuIndFun")
      [] OTHER -> Raw("Unknown", t)

SymbolTypeNew(info) ==
    LET t == BitAnd(info, 15) IN
    CASE t = 0 -> Variant("NoType")
      [] t = 1 -> Variant("Object")
      [] t = 2 -> Variant("Func")
      [] t = 3 -> Variant("Section")
      [] t = 4 -> Variant("File")
      [] t = 5 -> Variant("Common")
      [] t = 6 -> Variant("Tls")
      [] t = 10 -> Variant("GnuIndFun")
      [] OTHER -> Raw("Unknown", t)

\* SymbolBinding::new: matches on `info >> 4`.
SymbolBindingNew(info) ==
    LET b == ShiftRight(info, 4) IN
    CASE b = 0 -> Variant("Local")
      [] b = 1 -> Variant("Global")
      [] b = 2 -> Variant("Weak")
      [] b = 10 -> Variant("GnuUnique")
      [] OTHER -> Raw("Unknown", b)

\* SymbolVisibility::new: matches on `other & 0x3`.
SymbolVisibilityNew(other) ==
    LET v == BitAnd(other, 3) IN
    CASE v = 0 -> Variant("Default")
      [] v = 1 -> Variant("Internal")
      [] v = 2 -> Variant("Hidden")
      [] v = 3 -> Variant("Protected")
      [] OTHER -> Variant("Default")

\* The fields Symbol::new reads, in order: st_name, st_info, st_other,
\* st_shndx, st_value, st_size.
SymbolWidths == <<4, 1, 1, 2, 8, 8>>

MkSymbol(v) ==
    [st_name |-> v[1],
     st_type |-> SymbolTypeNew(v[2]),
     st_bind |-> SymbolBindingNew(v[2]),
     st_vis |-> SymbolVisibilityNew(v[3]),
     st_shndx |-> v[4],
     st_value |-> v[5],
     st_size |-> v[6]]

\* The symbol whose record starts at offset p.
SymbolAt(buf, p) == MkSymbol(ReadFields(buf, p, SymbolWidths))

\* The test of the symbol loop: `while i < header.sh_size`.
SymbolLoopInclusive(i, sh_size) == i <= sh_size

SymbolLoopGuard(i, sh_size) == i < sh_size

\* SymbolTable::new up to the loop: seek to the section's offset.
SY_Seek ==
    /\ pc = "sy_start"
    /\ reader' = SeekStart(reader, args.header.sh_offset)
    /\ locals' = [data |-> <<>>, i |-> 0]
    /\ pc' = "sy_loop"
    /\ UNCHANGED <<args, result>>

\* One iteration: add the entry size to i, read one symbol (its reads are
\* unwrapped) and push it.
SY_ReadSymbol ==
    /\ pc = "sy_loop"
    /\ SymbolLoopGuard(locals.i, args.header.sh_size)
    /\ UNCHANGED args
    /\ IF ~CanRead(reader, SumSeq(SymbolWidths))
       THEN /\ reader' \in AfterEof(reader)
            /\ result' = Panic("unwrap on UnexpectedEof")
            /\ pc' = "done"
            /\ UNCHANGED locals
       ELSE /\ reader' = Advance(reader, SumSeq(SymbolWidths))
            /\ locals' = [data |-> Append(locals.data,
                                          SymbolAt(reader.buf, reader.pos)),
                          i |-> locals.i + args.header.sh_entsize]
            /\ UNCHANGED <<pc, result>>

\* After the loop: the linked string table's header, the table's name, the
\* string table itself, and return.
SY_Finish ==
    /\ pc = "sy_loop"
    /\ ~SymbolLoopGuard(locals.i, args.header.sh_size)
    /\ pc' = "done"
    /\ UNCHANGED <<args, locals>>
    /\ IF args.header.sh_link >= Len(args.headers.headers)
       THEN /\ result' = Panic("index out of bounds")
            /\ UNCHANGED reader
       ELSE IF GetPanics(args.headers.strtab, args.header.sh_name)
       THEN /\ result' = Panic("range start index out of range")
            /\ UNCHANGED reader
       ELSE LET strtab == args.headers.headers[args.header.sh_link + 1] IN
            /\ result' = Return(
                  [data |-> locals.data,
                   name |-> StringTableGet(args.headers.strtab,
                                           args.header.sh_name),
                   strtab |-> StringTableNew(strtab, reader),
                   symsize |-> args.header.sh_entsize])
            /\ reader' = AfterStringTableNew(strtab, reader)

\* --- inputs of SpecSymbols ---

\* The file holds at most MaxSyms symbol records; the section declares a
\* size of sh_entsize * n (+ 1) for n up to MaxSyms.
MaxSyms == 2

\* Two symbol records: info 0x12 and info 0x21.
SymbolRecords ==
    {Encode(<<1, 18, 0, 1, 4096, 8>>, SymbolWidths),
     Encode(<<0, 33, 2, 65521, 0, 0>>, SymbolWidths)}

EntSizes == {0, 12, 24}

\* A section header as a record (only the fields given differ from 0).
Section(type, name, offset, size, link, info, entsize, align) ==
    [sh_name |-> name, sh_type |-> SectionHeaderTypeNew(type), sh_flags |-> 0,
     sh_addr |-> 0, sh_offset |-> offset, sh_size |-> size, sh_link |-> link,
     sh_info |-> info, sh_addralign |-> align, sh_entsize |-> entsize]

InitSymbols ==
    /\ pc = "sy_start"
    /\ locals = [data |-> <<>>, i |-> 0]
    /\ result = NoResult
    /\ \E k \in 0..MaxSyms : \E t \in [1..k -> SymbolRecords] :
       \E off \in {0, 5} : \E entsize \in EntSizes :
       \E n \in 0..MaxSyms : \E r \in {0, 1} :
       \E link \in {0, 1, 5} : \E name \in {1, 9} :
          LET symtab == Section(2, name, off, entsize * n + r, link, 0, entsize, 8)
              strtab == Section(3, 0, 1, 3, 0, 0, 0, 1) IN
          /\ reader = [buf |-> Zeros(off) \o Concat(t), pos |-> 0]
          /\ args = [op |-> "SymbolTable::new",
                     headers |-> [headers |-> <<strtab, symtab>>,
                                  strtab |-> [buffer |-> <<0, 97, 98, 0>>]],
                     header |-> symtab]

NextSymbols == SY_Seek \/ SY_ReadSymbol \/ SY_Finish

SpecSymbols == InitSymbols /\ [][NextSymbols]_vars

\* C4: for a section of size sh_entsize * n with sh_entsize > 0, the symbol
\* table SymbolTable::new returns holds exactly n symbols, and they are the
\* consecutive 24-byte records of the file from sh_offset on, in file order.
C4_SymbolCount ==
    (/\ pc = "done"
     /\ result.kind = "Return"
     /\ args.header.sh_entsize > 0
     /\ args.header.sh_size % args.header.sh_entsize = 0)
        => /\ Len(result.value.data) * args.header.sh_entsize
                 = args.header.sh_size
           /\ \A k \in 1..Len(result.value.data) :
                 result.value.data[k] =
                    SymbolAt(reader.buf, args.header.sh_offset + 24 * (k - 1))

\* A table of two symbols was returned for a section of size 2 * 24.
C4_Witness ==
    /\ pc = "done"
    /\ result.kind = "Return"
    /\ args.header.sh_entsize = 24
    /\ args.header.sh_size = 48
    /\ Len(result.value.data) = 2
    /\ result.value.data[1] # result.value.data[2]

\* --- the info and other bytes of a symbol ---

\* The three decoders applied to a symbol's info and other bytes, as
\* Symbol::new applies them.
SI_Decode ==
    /\ pc = "si_start"
    /\ pc' = "done"
    /\ result' = Return([st_type |-> SymbolTypeNew(args.st_info),
                         st_bind |-> SymbolBindingNew(args.st_info),
                         st_vis |-> SymbolVisibilityNew(args.st_other)])
    /\ UNCHANGED <<args, locals, reader>>

\* Every info byte, with every other byte.
InitSymbolInfo ==
    /\ pc = "si_start"
    /\ locals = <<>>
    /\ result = NoResult
    /\ reader = [buf |-> <<>>, pos |-> 0]
    /\ \E info \in 0..255 : \E other \in 0..255 :
          args = [op |-> "Symbol::new", st_info |-> info, st_other |-> other]

NextSymbolInfo == SI_Decode

SpecSymbolInfo == InitSymbolInfo /\ [][NextSymbolInfo]_vars

\* C5 as stated: type from the low nibble, binding from the high nibble,
\* visibility from the low 2 bits of the other byte, and info byte 0x12
\* decodes to binding Global and type Object.
C5_Original ==
    pc = "done" =>
        /\ result.value.st_type = SymbolTypeNew(args.st_info % 16)
        /\ result.value.st_bind = SymbolBindingNew((args.st_info \div 16) * 16)
        /\ result.value.st_vis = SymbolVisibilityNew(args.st_other % 4)
        /\ args.st_info = 18 =>
              /\ result.value.st_bind = Variant("Global")
              /\ result.value.st_type = Variant("Object")

\* C5 amended: type from the low nibble, binding from the high nibble,
\* visibility from the low 2 bits of the other byte; info byte 0x12 decodes
\* to binding Global (high nibble 1) and type Func (low nibble 2), and Object
\* is low nibble 1 (info byte 0x11 is a Global Object).
C5_Amended ==
    pc = "done" =>
        /\ result.value.st_type = SymbolTypeNew(args.st_info % 16)
        /\ result.value.st_bind = SymbolBindingNew((args.st_info \div 16) * 16)
        /\ result.value.st_vis = SymbolVisibilityNew(args.st_other % 4)
        /\ result.value.st_type \in
              {Variant("NoType"), Variant("Object"), Variant("Func"),
               Variant("Section"), Variant("File"), Variant("Common"),
               Variant("Tls"), Variant("GnuIndFun"),
               Raw("Unknown", args.st_info % 16)}
        /\ result.value.st_bind \in
              {Variant("Local"), Variant("Global"), Variant("Weak"),
               Variant("GnuUnique"), Raw("Unknown", args.st_info \div 16)}
        /\ args.st_info = 18 =>
              /\ result.value.st_bind = Variant("Global")
              /\ result.value.st_type = Variant("Func")
        /\ args.st_info = 17 =>
              /\ result.value.st_bind = Variant("Global")
              /\ result.value.st_type = Variant("Object")
        /\ (args.st_other % 4 = 2) => result.value.st_vis = Variant("Hidden")

\* The info byte 0x12 has been decoded.
C5_Witness ==
    /\ pc = "done"
    /\ args.st_info = 18
    /\ args.st_other = 6
    /\ result.value.st_type = Variant("Func")
    /\ result.value.st_vis = Variant("Hidden")

-----------------------------------------------------------------------------
(* section.rs: queries on the section headers.                             *)

\* SectionHeaders::get_all: the headers of the given type, in table order.
GetAllOtherTypes(headers, header_type) ==
    SelectSeq(headers.headers, LAMBDA h : h.sh_type # header_type)

GetAll(headers, header_type) ==
    SelectSeq(headers.headers, LAMBDA h : h.sh_type = header_type)

GetFirst(headers, header_type) ==
    LET all == GetAll(headers, header_type) IN
    IF all = <<>> THEN None ELSE Some(all[1])

\* SectionHeaders::get: get_all(..).pop(), the last header of the type.
Get(headers, header_type) ==
    LET all == GetAll(headers, header_type) IN
    IF all = <<>> THEN None ELSE Some(all[Len(all)])

\* SectionHeaders::get_by_index panics on an index out of range.
GetByIndexPanics(headers, index) == index >= Len(headers.headers)

GetByIndex(headers, index) == headers.headers[index + 1]

-----------------------------------------------------------------------------
(* dynamic.rs: the dynamic section.                                        *)

DynamicEntryTagNew(value) ==
    CASE value = 0 -> Variant("Null")
      [] value = 1 -> Variant("Needed")
      [] value = 2 -> Variant("PltRelocsSize")
      [] value = 3 -> Variant("PltGot")
      [] value = 4 -> Variant("Hash")
      [] value = 5 -> Variant("Strtab")
      [] value = 6 -> Variant("Symtab")
      [] value = 7 -> Variant("Rela")
      [] value = 8 -> Variant("RelaSize")
      [] value = 9 -> Variant("RelaEntSize")
      [] value = 10 -> Variant("StrtabSize")
      [] value = 11 -> Variant("SymtabEntSize")
      [] value = 12 -> Variant("Init")
      [] value = 13 -> Variant("Fini")
      [] value = 14 -> Variant("SoName")
      [] value = 15 -> Variant("Rpath")
      [] value = 16 -> Variant("Symbolic")
      [] value = 17 -> Variant("Rel")
      [] value = 18 -> Variant("RelSize")
      [] value = 19 -> Variant("RelEntSize")
      [] value = 20 -> Variant("PltRel")
      [] value = 21 -> Variant("Debug")
      [] value = 22 -> Variant("TextRel")
      [] value = 23 -> Variant("JmpRel")
      [] value = 24 -> Variant("BindNow")
      [] value = 25 -> Variant("InitArray")
      [] value = 26 -> Variant("FiniArray")
      [] value = 27 -> Variant("InitiArraySize")
      [] value = 28 -> Variant("FiniArraySize")
      [] value = 29 -> Variant("RunPath")
      [] value = 30 -> Variant("Flags")
      [] value = 31 -> Variant("Encoding")
      [] value = 32 -> Variant("PreInitArray")
      [] value = 33 -> Variant("PreInitArraySize")
      [] value = 34 -> Variant("SymtabSectionHeadeIndex")
      [] value = 1879048176 -> Variant("GnuVerSym")
      [] value = 1879048185 -> Variant("GnuRelaCount")
      [] value = 1879048186 -> Variant("GnuRelCount")
      [] value = 1879048187 -> Variant("StateFlags")
      [] value = 1879048188 -> Variant("GnuVerDef")
      [] value = 1879048189 -> Variant("GnuVerDefNum")
      [] value = 1879048190 -> Variant("GnuVerNeed")
      [] value = 1879048191 -> Variant("GnuVerNeedNum")
      [] value = 1879047925 -> Variant("GnuHashTable")
      [] OTHER -> Raw("Unknown", value)

\* The fields DynamicEntry::new reads: tag, value.
DynamicEntryWidths == <<8, 8>>

MkDynamicEntry(v) == [tag |-> DynamicEntryTagNew(v[1]), value |-> v[2]]

\* The dynamic entry whose pair starts at offset p.
DynamicEntryAt(buf, p) == MkDynamicEntry(ReadFields(buf, p, DynamicEntryWidths))

\* The test that ends the loop: the entry pushed last has the Null tag.
DynLoopEndsOnZeroValue(entries) == entries[Len(entries)].value = 0

DynLoopEnds(entries) == entries[Len(entries)].tag = Variant("Null")

\* DynamicSection::new up to the loop: `headers.get(Dynamic)?` returns None
\* when there is no such section; otherwise seek to the section's offset.
DY_Start ==
    /\ pc = "dy_start"
    /\ UNCHANGED args
    /\ LET header == Get(args.headers, Variant("Dynamic")) IN
       IF header = None
       THEN /\ result' = Return(None)
            /\ pc' = "done"
            /\ UNCHANGED <<reader, locals>>
       ELSE /\ reader' = SeekStart(reader, header[2].sh_offset)
            /\ locals' = [header |-> header[2], entries |-> <<>>]
            /\ pc' = "dy_loop"
            /\ UNCHANGED result

\* One iteration: read a pair (its reads are unwrapped), push it, and leave
\* the loop when its tag is Null.
DY_ReadEntry ==
    /\ pc = "dy_loop"
    /\ UNCHANGED args
    /\ IF ~CanRead(reader, SumSeq(DynamicEntryWidths))
       THEN /\ reader' \in AfterEof(reader)
            /\ result' = Panic("unwrap on UnexpectedEof")
            /\ pc' = "done"
            /\ UNCHANGED locals
       ELSE LET entries == Append(locals.entries,
                                  DynamicEntryAt(reader.buf, reader.pos)) IN
            /\ reader' = Advance(reader, SumSeq(DynamicEntryWidths))
            /\ locals' = [locals EXCEPT !.entries = entries]
            /\ pc' = IF DynLoopEnds(entries) THEN "dy_strtab" ELSE "dy_loop"
            /\ UNCHANGED result

\* After the loop: the string table of the section sh_link names, return.
DY_Strtab ==
    /\ pc = "dy_strtab"
    /\ pc' = "done"
    /\ UNCHANGED <<args, locals>>
    /\ IF GetByIndexPanics(args.headers, locals.header.sh_link)
       THEN /\ result' = Panic("index out of bounds")
            /\ UNCHANGED reader
       ELSE LET strtab_header ==
                    GetByIndex(args.headers, locals.header.sh_link) IN
            /\ result' = Return(Some(
                  [strtab |-> StringTableNew(strtab_header, reader),
                   data |-> locals.entries]))
            /\ reader' = AfterStringTableNew(strtab_header, reader)

\* --- inputs of SpecDynamic ---

\* The file holds at most MaxPairs (tag, value) pairs from the section's
\* offset on.
MaxPairs == 3

\* (Needed, 0x10), (Null, 0), (Null, 7), (BindNow, 0), (Strtab, 0x10),
\* (StrtabSize, 4).
DynamicPairs ==
    {Encode(<<1, 16>>, DynamicEntryWidths),
     Encode(<<0, 0>>, DynamicEntryWidths),
     Encode(<<0, 7>>, DynamicEntryWidths),
     Encode(<<24, 0>>, DynamicEntryWidths),
     Encode(<<5, 16>>, DynamicEntryWidths),
     Encode(<<10, 4>>, DynamicEntryWidths)}

\* Section header tables for a dynamic section at offset `off`: without a
\* dynamic section (empty, or other sections only), with one (its sh_link in
\* or out of range), with two (the first one at another offset), and with
\* one whose sh_link names a string table other than the one at address
\* 0x10 with 4 bytes.
DynamicTables(off) ==
    LET strtab == Section(3, 1, 1, 4, 0, 0, 0, 1)
        symtab == Section(11, 9, 0, 0, 0, 0, 24, 8)
        dynstr == [Section(3, 1, off + 8, 4, 0, 0, 0, 1) EXCEPT !.sh_addr = 16]
    IN
    {<<>>,
     <<strtab>>,
     <<strtab, symtab>>,
     <<strtab, Section(6, 17, off, 32, 0, 0, 16, 8)>>,
     <<Section(6, 17, off, 32, 1, 0, 16, 8), strtab>>,
     <<Section(6, 17, off, 32, 3, 0, 16, 8), strtab>>,
     <<Section(6, 17, off + 16, 32, 0, 0, 16, 8), strtab,
       Section(6, 17, off, 32, 1, 0, 16, 8)>>,
     <<Section(6, 17, off, 32, 1, 0, 16, 8), strtab, dynstr>>,
     <<Section(6, 17, off, 32, 2, 0, 16, 8), strtab, dynstr>>}

InitDynamic ==
    /\ pc = "dy_start"
    /\ locals = [header |-> None, entries |-> <<>>]
    /\ result = NoResult
    /\ \E k \in 0..MaxPairs : \E t \in [1..k -> DynamicPairs] :
       \E off \in {0, 4} : \E hs \in DynamicTables(off) : \E start \in {0, 9} :
          /\ reader = [buf |-> Zeros(off) \o Concat(t), pos |-> start]
          /\ args = [op |-> "DynamicSection::new",
                     headers |-> [headers |-> hs,
                                  strtab |-> [buffer |-> <<0, 97, 0>>]],
                     reader |-> [buf |-> Zeros(off) \o Concat(t),
                                 pos |-> start]]

NextDynamic == DY_Start \/ DY_ReadEntry \/ DY_Strtab

SpecDynamic == InitDynamic /\ [][NextDynamic]_vars

\* C6: the entries DynamicSection::new has read are the consecutive 16-byte
\* pairs from the section's offset on; none but the last has the Null tag;
\* the loop is left exactly when the pair just read has the Null tag, with
\* the cursor right after that pair (nothing after it was read); the section
\* returned ends with its only Null entry.
C6_StopsAtNull ==
    /\ pc \in {"dy_loop", "dy_strtab"} =>
          /\ \A i \in 1..Len(locals.entries) :
                /\ locals.entries[i] =
                      DynamicEntryAt(reader.buf,
                                     locals.header.sh_offset + 16 * (i - 1))
                /\ i < Len(locals.entries) =>
                      locals.entries[i].tag # Variant("Null")
          /\ reader.pos = locals.header.sh_offset + 16 * Len(locals.entries)
          /\ pc = "dy_loop" =>
                \A i \in 1..Len(locals.entries) :
                   locals.entries[i].tag # Variant("Null")
          /\ pc = "dy_strtab" =>
                /\ Len(locals.entries) >= 1
                /\ locals.entries[Len(locals.entries)].tag = Variant("Null")
    /\ (pc = "done" /\ result.kind = "Return" /\ result.value # None) =>
          LET data == result.value[2].data IN
          /\ Len(data) >= 1
          /\ data[Len(data)].tag = Variant("Null")
          /\ \A i \in 1..Len(data) :
                /\ data[i] = DynamicEntryAt(reader.buf,
                                 locals.header.sh_offset + 16 * (i - 1))
                /\ i < Len(data) => data[i].tag # Variant("Null")

\* The pairs (1, 0x10), (0, 0) followed by one more pair were decoded to
\* exactly 2 entries.
C6_Witness ==
    /\ pc = "done"
    /\ result.kind = "Return"
    /\ result.value # None
    /\ Len(reader.buf) = locals.header.sh_offset + 48
    /\ result.value[2].data =
          <<[tag |-> Variant("Needed"), value |-> 16],
            [tag |-> Variant("Null"), value |-> 0]>>

\* C7: when no section header has the Dynamic type, DynamicSection::new
\* never enters its loop and returns None (no panic, no DynamicSection,
\* empty or not) with the reader as it was passed in: same buffer, same
\* position.
C7_AbsentIsNone ==
    (\A i \in 1..Len(args.headers.headers) :
        args.headers.headers[i].sh_type # Variant("Dynamic"))
       => /\ pc \in {"dy_start", "done"}
          /\ reader = args.reader
          /\ pc = "done" => result = Return(None)

\* None was returned for a table of two sections, neither Dynamic, with the
\* cursor left where it was, away from the start.
C7_Witness ==
    /\ pc = "done"
    /\ result = Return(None)
    /\ Len(args.headers.headers) = 2
    /\ reader.pos = 9
    /\ Len(reader.buf) >= 32

-----------------------------------------------------------------------------
(* notes.rs: alignment arithmetic.                                         *)

\* u64 arithmetic.  A u64 is kept as its 8 little-endian bytes, so that
\* sums that leave 64 bits behave as in the program: with overflow checks
\* (debug builds) `+` and `-` panic, without them (release builds) they
\* wrap.
U64(v) == ToLE(v, 8)

U64Max == [i \in 1..8 |-> 255]

\* The bytes of a + b + c and, last, the carry out of the top byte.
RECURSIVE AddWithCarry(_, _, _)
AddWithCarry(a, b, c) ==
    IF a = <<>> THEN <<c>>
    ELSE LET s == Head(a) + Head(b) + c IN
         <<s % 256>> \o AddWithCarry(Tail(a), Tail(b), s \div 256)

\* `!x`
Not64(x) == [i \in 1..8 |-> 255 - x[i]]

\* `x & y`
And64(x, y) == [i \in 1..8 |-> BitAnd(x[i], y[i])]

WrappingAdd(a, b) == SubSeq(AddWithCarry(a, b, 0), 1, 8)

AddOverflows(a, b) == AddWithCarry(a, b, 0)[9] = 1

\* a - b is a + !b + 1; a borrow shows as a missing carry.
WrappingSub(a, b) == SubSeq(AddWithCarry(a, Not64(b), 1), 1, 8)

SubOverflows(a, b) == AddWithCarry(a, Not64(b), 1)[9] = 0

\* `a < b`
Less64(a, b) == SubOverflows(a, b)

\* a + b and a - b as the build computes them: Return(value) or the panic
\* of an overflow check.
Add64(a, b, checks) ==
    IF checks /\ AddOverflows(a, b)
    THEN Panic("attempt to add with overflow")
    ELSE Return(WrappingAdd(a, b))

Sub64(a, b, checks) ==
    IF checks /\ SubOverflows(a, b)
    THEN Panic("attempt to subtract with overflow")
    ELSE Return(WrappingSub(a, b))

\* align_up on u64 values: alignments up to 4 count as 4; then
\* (size + align - 1) & !(align - 1).
align_up_u64(size, align, checks) ==
    LET a == IF ~Less64(U64(4), align) THEN U64(4) ELSE align
        sum == Add64(size, a, checks) IN
    IF sum.kind = "panic" THEN sum
    ELSE LET less == Sub64(sum.value, U64(1), checks) IN
         IF less.kind = "panic" THEN less
         ELSE Return(And64(less.value, Not64(WrappingSub(a, U64(1)))))

\* `x & !m` on unsigned numbers: x with the bits of m cleared.
AndNot(x, m) == x - BitAnd(x, m)

\* align_up on values that stay far from 64 bits, where no sum overflows.
align_up(size, align) ==
    LET a == IF align <= 4 THEN 4 ELSE align IN
    AndNot(size + a - 1, a - 1)

\* sizeof(Elf64_Nhdr)
ELF_NOTE_SIZE == 12

\* note_desc_offset and note_next_offset on u64 values.
note_desc_offset_u64(namesz, align, checks) ==
    LET size == Add64(U64(ELF_NOTE_SIZE), namesz, checks) IN
    IF size.kind = "panic" THEN size
    ELSE align_up_u64(size.value, align, checks)

note_next_offset_u64(namesz, descsz, align, checks) ==
    LET desc_offset == note_desc_offset_u64(namesz, align, checks) IN
    IF desc_offset.kind = "panic" THEN desc_offset
    ELSE LET size == Add64(desc_offset.value, descsz, checks) IN
         IF size.kind = "panic" THEN size
         ELSE align_up_u64(size.value, align, checks)

\* The same on values that stay far from 64 bits.
note_desc_offset(namesz, align) == align_up(ELF_NOTE_SIZE + namesz, align)

note_next_offset(namesz, descsz, align) ==
    align_up(note_desc_offset(namesz, align) + descsz, align)

-----------------------------------------------------------------------------
(* notes.rs: owners, types and descriptors of notes.                       *)

\* String::from_utf8 succeeds iff the bytes are well-formed UTF-8.
Cont(b) == b >= 128 /\ b <= 191

RECURSIVE Utf8Valid(_)
Utf8Valid(b) ==
    IF b = <<>> THEN TRUE
    ELSE LET n == Len(b)
             c == b[1] IN
         CASE c <= 127 -> Utf8Valid(SubSeq(b, 2, n))
           [] c >= 194 /\ c <= 223 ->
                 n >= 2 /\ Cont(b[2]) /\ Utf8Valid(SubSeq(b, 3, n))
           [] c >= 224 /\ c <= 239 ->
                 /\ n >= 3
                 /\ Cont(b[2]) /\ Cont(b[3])
                 /\ c = 224 => b[2] >= 160
                 /\ c = 237 => b[2] <= 159
                 /\ Utf8Valid(SubSeq(b, 4, n))
           [] c >= 240 /\ c <= 244 ->
                 /\ n >= 4
                 /\ Cont(b[2]) /\ Cont(b[3]) /\ Cont(b[4])
                 /\ c = 240 => b[2] >= 144
                 /\ c = 244 => b[2] <= 143
                 /\ Utf8Valid(SubSeq(b, 5, n))
           [] OTHER -> FALSE

\* The names the owners are recognised by, as bytes: "GNU\0", "LINUX\0",
\* "CORE\0".
NameGnu == <<71, 78, 85, 0>>
NameLinux == <<76, 73, 78, 85, 88, 0>>
NameCore == <<67, 79, 82, 69, 0>>

\* NoteOwner::new
NoteOwnerNewWithoutNul(name) ==
    CASE name \in {NameGnu, <<71, 78, 85>>} -> "Gnu"
      [] name \in {NameLinux, NameCore, <<67, 79, 82, 69>>} -> "Core"
      [] OTHER -> "Unknown"

NoteOwnerNew(name) ==
    CASE name = NameGnu -> "Gnu"
      [] name = NameLinux \/ name = NameCore -> "Core"
      [] OTHER -> "Unknown"

NoteTypeGnu(value) ==
    CASE value = 1 -> Variant("ElfNoteAbi")
      [] value = 2 -> Variant("GnuHwCap")
      [] value = 3 -> Variant("GnuBuildID")
      [] value = 4 -> Variant("GnuGoldVersion")
      [] value = 5 -> Variant("GnuProperty")
      [] OTHER -> Raw("Unknown", value)

NoteTypeCore(value) ==
    CASE value = 1 -> Variant("PrStatus")
      [] value = 2 -> Variant("PrFpReg")
      [] value = 3 -> Variant("PrPsInfo")
      [] value = 4 -> Variant("TaskStruct")
      [] value = 5 -> Variant("Platform")
      [] value = 6 -> Variant("Auxw")
      [] value = 7 -> Variant("GWindows")
      [] value = 8 -> Variant("AsRet")
      [] value = 10 -> Variant("PsStatus")
      [] value = 13 -> Variant("PsInfo")
      [] value = 14 -> Variant("PrcRed")
      [] value = 15 -> Variant("UtsName")
      [] value = 16 -> Variant("LwpStatus")
      [] value = 17 -> Variant("LwpInfo")
      [] value = 20 -> Variant("FprxRegSet")
      [] value = 1397311305 -> Variant("SigInfo")
      [] value = 1179208773 -> Variant("MappedFiles")
      [] value = 514 -> Variant("X86ExtendedState")
      [] OTHER -> Raw("Unknown", value)

NoteTypeDefault(value) ==
    CASE value = 1 -> Variant("Version")
      [] OTHER -> Raw("Unknown", value)

NoteOsNew(value) ==
    CASE value = 0 -> Variant("Linux")
      [] value = 1 -> Variant("Gnu")
      [] value = 2 -> Variant("Solaris2")
      [] value = 3 -> Variant("FreeBsd")
      [] OTHER -> Raw("Unknown", value)

\* to_hex_string: two upper-case hex digits per byte, joined by spaces.
HexDigit(n) == IF n < 10 THEN 48 + n ELSE 55 + n

RECURSIVE to_hex_string(_)
to_hex_string(bytes) ==
    IF bytes = <<>> THEN <<>>
    ELSE <<HexDigit(Head(bytes) \div 16), HexDigit(Head(bytes) % 16)>>
            \o (IF Len(bytes) = 1 THEN <<>>
                ELSE <<32>> \o to_hex_string(Tail(bytes)))

\* read_filenames: `count` NUL-terminated names from offset p of the
\* descriptor; a read past its end is an error.
RECURSIVE ReadFilenames(_, _, _)
ReadFilenames(data, p, count) ==
    IF count = 0 THEN Ok(<<>>)
    ELSE LET nuls == {z \in (p + 1)..Len(data) : data[z] = 0} IN
         IF nuls = {} THEN Err(IOError)
         ELSE LET z == CHOOSE x \in nuls : \A y \in nuls : x <= y
                  rest == ReadFilenames(data, z, count - 1) IN
              IF rest.kind = "Err" THEN rest
              ELSE Ok(<<[i \in 1..(z - 1 - p) |-> AsChar(data[p + i])]>>
                         \o rest.value)

\* MappedFiles::new on counts that stay far from 64 bits: count and page
\* size, the names from the block after the triples, then the triples.
MappedFilesNew(data, addrsize) ==
    IF addrsize \notin {4, 8}
    THEN Err([error |-> "invalid addrsize"])
    ELSE IF Len(data) < 2 * addrsize THEN Err(IOError)
    ELSE LET count == ReadAt(data, 0, addrsize)
             pagesize == ReadAt(data, addrsize, addrsize)
             start == 2 * addrsize
             filenames == ReadFilenames(data, start + count * 3 * addrsize,
                                        count) IN
         IF filenames.kind = "Err" THEN filenames
         ELSE IF count > 0 /\ Len(data) < start + count * 3 * addrsize
         THEN Err(IOError)
         ELSE Ok([count |-> count,
                  pagesize |-> pagesize,
                  files |-> [idx \in 1..count |->
                     LET v == ReadFields(data,
                                 start + (idx - 1) * 3 * addrsize,
                                 <<addrsize, addrsize, addrsize>>) IN
                     [start |-> v[1], end |-> v[2], page_offset |-> v[3],
                      filename |-> filenames.value[idx]]]])

\* NoteDesc::gnu: the ABI descriptor indexes bytes 0..15 of the data and
\* panics when one is missing.
NoteDescGnu(value, data) ==
    CASE value = Variant("ElfNoteAbi") ->
            IF Len(data) < 16 THEN Panic("index out of bounds")
            ELSE Ok(<<"ElfNoteAbi",
                      [os |-> NoteOsNew(ReadAt(data, 0, 4)),
                       major |-> ReadAt(data, 4, 4),
                       minor |-> ReadAt(data, 8, 4),
                       patch |-> ReadAt(data, 12, 4)]>>)
      [] value = Variant("GnuHwCap") -> Ok(Raw("GnuHwCap", data))
      [] value = Variant("GnuBuildID") ->
            Ok(Raw("GnuBuildID", to_hex_string(data)))
      [] value = Variant("GnuGoldVersion") ->
            Ok(Raw("GnuGoldVersion", to_hex_string(data)))
      [] value = Variant("GnuProperty") -> Ok(Raw("GnuProperty", data))
      [] OTHER -> Ok(Raw("Unknown", data))

\* NoteDesc::core
NoteDescCore(value, data, addrsize) ==
    IF value = Variant("MappedFiles")
    THEN LET m == MappedFilesNew(data, addrsize) IN
         IF m.kind = "Err" THEN m ELSE Ok(Raw("MappedFiles", m.value))
    ELSE Ok(Raw("Unknown", data))

\* NoteDesc::default
NoteDescDefault(data) == Ok(Raw("Unknown", data))

\* The relative seek between the name and the descriptor:
\* note_desc_offset(name_size, align) - (name_size + ELF_NOTE_SIZE).
DescPaddingNone(name_size, align) == 0

DescPadding(name_size, align) ==
    note_desc_offset(name_size, align) - (name_size + ELF_NOTE_SIZE)

\* Note::new with the cursor of r at the start of the record: Ok(note),
\* Err(error) or a panic.
NoteNew(addrsize, align, r) ==
    IF ~CanRead(r, ELF_NOTE_SIZE) THEN Err(IOError)
    ELSE
    LET h == ReadFields(r.buf, r.pos, <<4, 4, 4>>)
        name_size == h[1]
        desc_size == h[2]
        type_ == h[3]
        r1 == Advance(r, ELF_NOTE_SIZE) IN
    IF ~CanRead(r1, name_size) THEN Err(IOError)
    ELSE
    LET name_ == BytesAt(r.buf, r1.pos, name_size)
        r2 == Advance(r1, name_size + DescPadding(name_size, align)) IN
    IF ~CanRead(r2, desc_size) THEN Err(IOError)
    ELSE
    LET desc_ == BytesAt(r.buf, r2.pos, desc_size) IN
    IF ~Utf8Valid(name_) THEN Err([error |-> "FromUtf8Error"])
    ELSE
    LET owner == NoteOwnerNew(name_)
        note_type == CASE owner = "Gnu" -> NoteTypeGnu(type_)
                       [] owner = "Core" -> NoteTypeCore(type_)
                       [] OTHER -> NoteTypeDefault(type_)
        desc == CASE owner = "Gnu" -> NoteDescGnu(note_type, desc_)
                  [] owner = "Core" -> NoteDescCore(note_type, desc_, addrsize)
                  [] OTHER -> NoteDescDefault(desc_) IN
    IF desc.kind # "Ok" THEN desc
    ELSE Ok([name_size |-> name_size,
             desc_size |-> desc_size,
             note_type |-> note_type,
             name |-> name_,
             desc |-> desc.value])

\* The cursor after a Note::new that returned Ok: right after the
\* descriptor.
AfterNoteNew(align, r) ==
    LET h == ReadFields(r.buf, r.pos, <<4, 4, 4>>) IN
    Advance(r, ELF_NOTE_SIZE + h[1] + DescPadding(h[1], align) + h[2])

-----------------------------------------------------------------------------
(* notes.rs: NoteSection::new_from_file.                                   *)

\* The test of the loop: `while pos < size`.
NoteLoopGuard(pos, size) == pos < size

\* Up to the loop: seek to the region's offset.
NF_Start ==
    /\ pc = "nf_start"
    /\ reader' = SeekStart(reader, args.offset)
    /\ locals' = [data |-> <<>>, pos |-> 0]
    /\ pc' = "nf_loop"
    /\ UNCHANGED <<args, result>>

\* One iteration: seek to offset + pos, read a note (`?` returns its
\* error), advance pos by the padded size of the record, leave the loop when
\* the name is empty, push the note otherwise.
NF_ReadNote ==
    /\ pc = "nf_loop"
    /\ NoteLoopGuard(locals.pos, args.size)
    /\ UNCHANGED args
    /\ LET at == SeekStart(reader, args.offset + locals.pos)
           note == NoteNew(args.addrsize, args.align, at) IN
       IF note.kind # "Ok"
       THEN /\ reader' \in AfterEof(at)
            /\ result' = note
            /\ pc' = "done"
            /\ UNCHANGED locals
       ELSE LET n == note.value
                pos == locals.pos
                        + note_next_offset(n.name_size, n.desc_size, args.align) IN
            /\ reader' = AfterNoteNew(args.align, at)
            /\ UNCHANGED result
            /\ IF n.name_size = 0
               THEN /\ locals' = [locals EXCEPT !.pos = pos]
                    /\ pc' = "nf_break"
               ELSE /\ locals' = [data |-> Append(locals.data, n), pos |-> pos]
                    /\ pc' = "nf_loop"

\* After the loop, left by its test or by the break: return the section.
NF_Return ==
    /\ \/ pc = "nf_break"
       \/ pc = "nf_loop" /\ ~NoteLoopGuard(locals.pos, args.size)
    /\ pc' = "done"
    /\ result' = Ok([data |-> locals.data, name |-> args.name])
    /\ UNCHANGED <<args, locals, reader>>

\* --- inputs of SpecNotes ---

\* A region holds at most MaxNotes records.
MaxNotes == 2

\* n rounded up to a multiple of e.
RoundUp(n, e) == ((n + e - 1) \div e) * e

\* A note record as it lies in the file for alignment e: header, name,
\* padding, descriptor (`descsz` is the declared length and `desc` the bytes
\* present), padding.
NoteRecord(name, type, descsz, desc, e) ==
    LET doff == RoundUp(12 + Len(name), e)
        next == RoundUp(doff + descsz, e) IN
    Encode(<<Len(name), descsz, type>>, <<4, 4, 4>>)
        \o name \o Zeros(doff - 12 - Len(name))
        \o desc \o Zeros(IF Len(desc) = descsz THEN next - doff - descsz ELSE 0)

\* The records regions are made of: "GNU\0" build id without descriptor;
\* "ABCDEFG\0" with 4 descriptor bytes; "CORE\0" with 2; a record without
\* name and descriptor; a record without name that declares 8 descriptor
\* bytes of which 4 are there.
NoteRecords(e) ==
    {NoteRecord(NameGnu, 3, 0, <<>>, e),
     NoteRecord(<<65, 66, 67, 68, 69, 70, 71, 0>>, 1, 4, <<1, 2, 3, 4>>, e),
     NoteRecord(NameCore, 1, 2, <<7, 9>>, e),
     NoteRecord(<<>>, 0, 0, <<>>, e),
     NoteRecord(<<>>, 0, 8, <<5, 6, 7, 8>>, e)}

InitNotes ==
    /\ pc = "nf_start"
    /\ locals = [data |-> <<>>, pos |-> 0]
    /\ result = NoResult
    /\ \E align \in {0, 4, 8} : \E k \in 0..MaxNotes :
       \E t \in [1..k -> NoteRecords(IF align <= 4 THEN 4 ELSE align)] :
       \E offset \in {0, 3} : \E delta \in {-4, 0, 4} :
          /\ Len(Concat(t)) + delta >= 0
          /\ reader = [buf |-> Zeros(offset) \o Concat(t), pos |-> 0]
          /\ args = [op |-> "NoteSection::new_from_file",
                     addrsize |-> 8,
                     offset |-> offset,
                     size |-> Len(Concat(t)) + delta,
                     align |-> align,
                     name |-> <<46, 110>>]

NextNotes == NF_Start \/ NF_ReadNote \/ NF_Return

SpecNotes == InitNotes /\ [][NextNotes]_vars

\* The layout of a region from position p on, by the rule of the claim: a
\* record at p has its descriptor at p + align_up(12 + name_size, align) and
\* its successor at p + align_up(that + desc_size, align).  `ok` says that
\* the records have names, lie in the buffer and end exactly at `size`;
\* `notes` lists for each record where it starts, its name bytes and its
\* descriptor bytes.
RECURSIVE RegionLayout(_, _, _, _, _)
RegionLayout(buf, offset, size, align, p) ==
    IF p = size THEN [ok |-> TRUE, notes |-> <<>>]
    ELSE IF p > size \/ offset + p + 12 > Len(buf)
    THEN [ok |-> FALSE, notes |-> <<>>]
    ELSE LET name_size == ReadAt(buf, offset + p, 4)
             desc_size == ReadAt(buf, offset + p + 4, 4)
             doff == align_up(12 + name_size, align)
             next == align_up(doff + desc_size, align) IN
         IF name_size = 0 \/ offset + p + doff + desc_size > Len(buf)
         THEN [ok |-> FALSE, notes |-> <<>>]
         ELSE LET rest == RegionLayout(buf, offset, size, align, p + next) IN
              [ok |-> rest.ok,
               notes |-> <<[start |-> p,
                            type |-> ReadAt(buf, offset + p + 8, 4),
                            name |-> BytesAt(buf, offset + p + 12, name_size),
                            desc |-> BytesAt(buf, offset + p + doff, desc_size)]>>
                            \o rest.notes]

\* A record whose descriptor its owner can interpret: a name in UTF-8, 16
\* bytes for a GNU ABI note, a well-formed table for a core mapped-files
\* note.
Interpretable(n, addrsize) ==
    /\ Utf8Valid(n.name)
    /\ (n.name = NameGnu /\ n.type = 1) => Len(n.desc) >= 16
    /\ (n.name \in {NameCore, NameLinux} /\ n.type = 1179208773) =>
          MappedFilesNew(n.desc, addrsize).kind = "Ok"

\* The descriptor bytes a decoded note carries, for the variants that keep
\* them as they are.
RawDesc(note) == note.desc[2]
KeepsRawDesc(note) ==
    note.desc[1] \in {"Unknown", "GnuHwCap", "GnuProperty"}

\* C8: for a region of consecutive well-formed notes whose padded sizes sum
\* to the region's size, new_from_file returns every note, in order, with
\* the name bytes found 12 bytes after the record's start and the
\* descriptor bytes found at align_up(12 + name_size, align) after it, the
\* next record being taken at align_up(that + desc_size, align) after it;
\* the loop is left by its test with pos equal to the size.
C8_NotesRecovered ==
    LET lay == RegionLayout(reader.buf, args.offset, args.size, args.align, 0) IN
    (/\ pc = "done"
     /\ lay.ok
     /\ \A i \in 1..Len(lay.notes) : Interpretable(lay.notes[i], args.addrsize))
       => /\ result.kind = "Ok"
          /\ locals.pos = args.size
          /\ Len(result.value.data) = Len(lay.notes)
          /\ \A i \in 1..Len(lay.notes) :
                LET note == result.value.data[i] IN
                /\ note.name = lay.notes[i].name
                /\ note.name_size = Len(lay.notes[i].name)
                /\ note.desc_size = Len(lay.notes[i].desc)
                /\ KeepsRawDesc(note) => RawDesc(note) = lay.notes[i].desc
                /\ note.desc[1] = "GnuBuildID" =>
                      note.desc[2] = to_hex_string(lay.notes[i].desc)

\* Two notes with names of 4 and 8 bytes and descriptors of 0 and 4 bytes,
\* alignment 4, were both returned; the second one starts at offset 16 and
\* the region is 40 bytes long.
C8_Witness ==
    /\ pc = "done"
    /\ result.kind = "Ok"
    /\ args.align = 4
    /\ args.size = 40
    /\ locals.pos = 40
    /\ Len(result.value.data) = 2
    /\ result.value.data[1].name = NameGnu
    /\ result.value.data[1].desc_size = 0
    /\ result.value.data[2].name_size = 8
    /\ result.value.data[2].desc = Raw("Unknown", <<1, 2, 3, 4>>)
    /\ BytesAt(reader.buf, args.offset + 16 + 12, 8) = result.value.data[2].name

\* The records a walk of the region meets before its first record without
\* a name: their number, or -1 when the walk ends (at the size, or at a
\* record that is not wholly in the buffer) before such a record.
RECURSIVE NotesBeforeZeroName(_, _, _, _, _)
NotesBeforeZeroName(buf, offset, size, align, p) ==
    IF p >= size \/ offset + p + 12 > Len(buf) THEN -1
    ELSE LET name_size == ReadAt(buf, offset + p, 4)
             desc_size == ReadAt(buf, offset + p + 4, 4)
             doff == align_up(12 + name_size, align)
             next == align_up(doff + desc_size, align) IN
         IF name_size = 0 THEN 0
         ELSE IF offset + p + doff + desc_size > Len(buf) THEN -1
         ELSE LET rest == NotesBeforeZeroName(buf, offset, size, align,
                                              p + next) IN
              IF rest < 0 THEN -1 ELSE 1 + rest

\* C9 as stated: when the decoding of a region meets a record whose name
\* length is zero, it returns exactly the notes before that record,
\* whatever descriptor length the record declares.
C9_StopsAtZeroName ==
    LET before == NotesBeforeZeroName(reader.buf, args.offset, args.size,
                                      args.align, 0) IN
    (pc = "done" /\ before >= 0)
       => /\ result.kind = "Ok"
          /\ Len(result.value.data) = before

-----------------------------------------------------------------------------
(* section.rs: SectionHeaders::dynstr.                                     *)

\* ".dynstr"
DotDynstr == <<46, 100, 121, 110, 115, 116, 114>>

\* The scan of dynstr from the i-th header on: the first header of type
\* Strtab whose name is ".dynstr" (Some(its position)), None when there is
\* none, or a panic of the name lookup.
RECURSIVE DynstrScanAnyType(_, _)
DynstrScanAnyType(headers, i) ==
    IF i > Len(headers.headers) THEN Return(None)
    ELSE LET header == headers.headers[i] IN
         IF GetPanics(headers.strtab, header.sh_name)
         THEN Panic("range start index out of range")
         ELSE IF StringTableGet(headers.strtab, header.sh_name) # DotDynstr
         THEN DynstrScanAnyType(headers, i + 1)
         ELSE Return(Some(i))

RECURSIVE DynstrScan(_, _)
DynstrScan(headers, i) ==
    IF i > Len(headers.headers) THEN Return(None)
    ELSE LET header == headers.headers[i] IN
         IF header.sh_type # Variant("Strtab") THEN DynstrScan(headers, i + 1)
         ELSE IF GetPanics(headers.strtab, header.sh_name)
         THEN Panic("range start index out of range")
         ELSE IF StringTableGet(headers.strtab, header.sh_name) # DotDynstr
         THEN DynstrScan(headers, i + 1)
         ELSE Return(Some(i))

-----------------------------------------------------------------------------
(* version.rs: the version-need section.                                   *)

VersionAuxFlagsNew(value) ==
    CASE value = 0 -> Variant("None")
      [] value = 2 -> Variant("Weak")
      [] OTHER -> Raw("Unknown", value)

\* The fields VersionNeed::new reads: version, aux_count, file_offset,
\* aux_offset, next_offset.
VersionNeedWidths == <<2, 2, 4, 4, 4>>

MkVersionNeed(v) ==
    [version |-> v[1], aux_count |-> v[2], file_offset |-> v[3],
     aux_offset |-> v[4], next_offset |-> v[5]]

VersionNeedAt(buf, p) == MkVersionNeed(ReadFields(buf, p, VersionNeedWidths))

\* The fields VersionAux::new reads: hash, flags, other, name, next.
VersionAuxWidths == <<4, 2, 2, 4, 4>>

MkVersionAux(v) ==
    [hash |-> v[1], flags |-> VersionAuxFlagsNew(v[2]), other |-> v[3],
     name |-> v[4], next |-> v[5]]

VersionAuxAt(buf, p) == MkVersionAux(ReadFields(buf, p, VersionAuxWidths))

\* `aux_offset += au.next`
AuxAdvanceByRecordSize(aux_offset, au) == aux_offset + 16

AuxAdvance(aux_offset, au) == aux_offset + au.next

\* `headers.get(SectionHeaderType::GnuVerNeed).is_none()`
VerNeedAbsentNever(headers) == FALSE

VerNeedAbsent(headers) == Get(headers, Variant("GnuVerNeed")) = None

\* VersionSection::new up to the loop: Ok(None) without a GnuVerNeed
\* section; the second lookup turns a missing section into an error.
VS_Start ==
    /\ pc = "vs_start"
    /\ UNCHANGED <<args, reader>>
    /\ LET header == Get(args.headers, Variant("GnuVerNeed")) IN
       IF VerNeedAbsent(args.headers)
       THEN /\ result' = Ok(None)
            /\ pc' = "done"
            /\ UNCHANGED locals
       ELSE IF header = None
       THEN /\ result' = Err([error |-> "Unable to get version section"])
            /\ pc' = "done"
            /\ UNCHANGED locals
       ELSE /\ locals' = [header |-> header[2], offset |-> 0, data |-> <<>>,
                          aux |-> <<>>, cnt |-> 0, verneed |-> None,
                          aux_offset |-> 0, i |-> 0]
            /\ pc' = "vs_loop"
            /\ UNCHANGED result

\* `while cnt < header.sh_info`
NeedLoopGuardInclusive(cnt, sh_info) == cnt <= sh_info

NeedLoopGuard(cnt, sh_info) == cnt < sh_info

\* The outer loop, first half: seek to the record and read it.
VS_ReadNeed ==
    /\ pc = "vs_loop"
    /\ NeedLoopGuard(locals.cnt, locals.header.sh_info)
    /\ UNCHANGED args
    /\ LET at == SeekStart(reader, locals.header.sh_offset + locals.offset) IN
       IF ~CanRead(at, SumSeq(VersionNeedWidths))
       THEN /\ reader' \in AfterEof(at)
            /\ result' = Err(IOError)
            /\ pc' = "done"
            /\ UNCHANGED locals
       ELSE LET verneed == VersionNeedAt(at.buf, at.pos) IN
            /\ reader' = Advance(at, SumSeq(VersionNeedWidths))
            /\ locals' = [locals EXCEPT !.verneed = verneed,
                                        !.aux_offset = verneed.aux_offset,
                                        !.i = 0]
            /\ pc' = "vs_aux"
            /\ UNCHANGED result

\* One iteration of the inner loop: seek to the auxiliary record, read it,
\* advance by its `next`, push it.
VS_ReadAux ==
    /\ pc = "vs_aux"
    /\ locals.i < locals.verneed.aux_count
    /\ UNCHANGED args
    /\ LET at == SeekStart(reader, locals.header.sh_offset + locals.offset
                                      + locals.aux_offset) IN
       IF ~CanRead(at, SumSeq(VersionAuxWidths))
       THEN /\ reader' \in AfterEof(at)
            /\ result' = Err(IOError)
            /\ pc' = "done"
            /\ UNCHANGED locals
       ELSE LET au == VersionAuxAt(at.buf, at.pos) IN
            /\ reader' = Advance(at, SumSeq(VersionAuxWidths))
            /\ locals' = [locals EXCEPT
                             !.aux_offset = AuxAdvance(locals.aux_offset, au),
                             !.aux = Append(locals.aux, au),
                             !.i = locals.i + 1]
            /\ UNCHANGED <<pc, result>>

\* The outer loop, second half: advance by the record's next_offset and
\* push the pair.
VS_EndNeed ==
    /\ pc = "vs_aux"
    /\ ~(locals.i < locals.verneed.aux_count)
    /\ locals' = [locals EXCEPT
                     !.offset = locals.offset + locals.verneed.next_offset,
                     !.data = Append(locals.data, <<locals.aux, locals.verneed>>),
                     !.aux = <<>>,
                     !.cnt = locals.cnt + 1]
    /\ pc' = "vs_loop"
    /\ UNCHANGED <<args, reader, result>>

\* After the loops: the ".dynstr" table (an error without it), the
\* section's name, return.
VS_Finish ==
    /\ pc = "vs_loop"
    /\ ~NeedLoopGuard(locals.cnt, locals.header.sh_info)
    /\ pc' = "done"
    /\ UNCHANGED <<args, locals>>
    /\ LET found == DynstrScan(args.headers, 1) IN
       IF found.kind = "panic"
       THEN /\ result' = found
            /\ UNCHANGED reader
       ELSE IF found.value = None
       THEN /\ result' = Err([error |-> "Unable to load get dynamic string"])
            /\ UNCHANGED reader
       ELSE LET dynstr == args.headers.headers[found.value[2]] IN
            /\ reader' = AfterStringTableNew(dynstr, reader)
            /\ IF GetPanics(args.headers.strtab, locals.header.sh_name)
               THEN result' = Panic("range start index out of range")
               ELSE result' = Ok(Some(
                       [data |-> locals.data,
                        strtab |-> StringTableNew(dynstr, reader),
                        name |-> StringTableGet(args.headers.strtab,
                                                locals.header.sh_name)]))

\* --- inputs of SpecVersion ---

\* The section holds a version-need record followed by MaxSlots records of
\* 16 bytes; the first record declares up to MaxAux auxiliary records and
\* the section header up to MaxNeeds version-need records.
MaxSlots == 3
MaxAux == 2
MaxNeeds == 2

\* What the i-th following record may be: an auxiliary record with hash
\* 100 + i linked to the record after it or to the second record after it,
\* or a version-need record with one auxiliary record right after it.
SlotRecords(i) ==
    {Encode(<<100 + i, 0, 0, 1, 16>>, VersionAuxWidths),
     Encode(<<100 + i, 2, 0, 1, 32>>, VersionAuxWidths),
     Encode(<<1, 1, 7, 16, 0>>, VersionNeedWidths)}

\* The choices of the first n following records.
RECURSIVE SlotChoices(_)
SlotChoices(n) ==
    IF n = 0 THEN {<<>>}
    ELSE {Append(s, r) : s \in SlotChoices(n - 1), r \in SlotRecords(n)}

\* Section header tables: the section-name table is "\0.dynstr\0.v\0".
VersionNames == <<0>> \o DotDynstr \o <<0, 46, 118, 0>>

VersionTables(off, info) ==
    LET verneed == Section(1879048190, 9, off, 64, 1, info, 0, 8) IN
    {<<Section(3, 1, 0, 4, 0, 0, 0, 1), verneed>>,
     <<verneed, Section(3, 9, 0, 4, 0, 0, 0, 1)>>,
     <<Section(3, 1, 0, 4, 0, 0, 0, 1)>>,
     <<Section(3, 9, 0, 4, 0, 0, 0, 1)>>}

InitVersion ==
    /\ pc = "vs_start"
    /\ locals = [header |-> None, offset |-> 0, data |-> <<>>, aux |-> <<>>,
                 cnt |-> 0, verneed |-> None, aux_offset |-> 0, i |-> 0]
    /\ result = NoResult
    /\ \E slots \in SlotChoices(MaxSlots) :
       \E k \in 0..MaxAux : \E a \in {16, 32} : \E n \in {0, 16, 32} :
       \E info \in 0..MaxNeeds : \E off \in {0, 8} :
       \E hs \in VersionTables(off, info) :
          /\ Len(hs) = 1 => (k = 0 /\ a = 16 /\ n = 0 /\ info = 0)
          /\ reader = [buf |-> Zeros(off)
                                 \o Encode(<<1, k, 1, a, n>>, VersionNeedWidths)
                                 \o Concat(slots),
                       pos |-> off]
          /\ args = [op |-> "VersionSection::new",
                     headers |-> [headers |-> hs,
                                  strtab |-> [buffer |-> VersionNames]]]

NextVersion ==
    VS_Start \/ VS_ReadNeed \/ VS_ReadAux \/ VS_EndNeed \/ VS_Finish

SpecVersion == InitVersion /\ [][NextVersion]_vars

\* Where the j-th version-need record of `data` starts: at the section's
\* offset, and each next one at its predecessor's start plus the
\* predecessor's next_offset.
RECURSIVE NeedStart(_, _, _)
NeedStart(sh_offset, data, j) ==
    IF j = 1 THEN sh_offset
    ELSE NeedStart(sh_offset, data, j - 1) + data[j - 1][2].next_offset

\* Where the n-th auxiliary record of a pair was read: the first at the
\* record's start plus aux_offset, each next one at its predecessor's
\* position plus the predecessor's `next`.
RECURSIVE AuxPosition(_, _, _, _)
AuxPosition(start, verneed, aux, n) ==
    IF n = 1 THEN start + verneed.aux_offset
    ELSE AuxPosition(start, verneed, aux, n - 1) + aux[n - 1].next

\* A pair of `data`, the j-th, is the version-need record at its start with
\* exactly aux_count auxiliary records, in chain order.
PairInChainOrder(buf, sh_offset, data, j) ==
    LET aux == data[j][1]
        verneed == data[j][2]
        start == NeedStart(sh_offset, data, j) IN
    /\ verneed = VersionNeedAt(buf, start)
    /\ Len(aux) = verneed.aux_count
    /\ \A n \in 1..Len(aux) :
          aux[n] = VersionAuxAt(buf, AuxPosition(start, verneed, aux, n))

\* C10: every pair VersionSection::new has collected, and every pair of
\* the section it returns, holds exactly aux_count auxiliary records in
\* chain order: the first read at the record's start plus aux_offset, each
\* next one at the previous one's position plus the previous one's `next`,
\* wherever the records lie in the buffer.
C10_AuxChain ==
    /\ pc \in {"vs_loop", "vs_aux"} =>
          \A j \in 1..Len(locals.data) :
             PairInChainOrder(reader.buf, locals.header.sh_offset,
                              locals.data, j)
    /\ (pc = "done" /\ result.kind = "Ok" /\ result.value # None) =>
          \A j \in 1..Len(result.value[2].data) :
             PairInChainOrder(reader.buf, locals.header.sh_offset,
                              result.value[2].data, j)

\* A section was returned whose first record has aux_count = 2 and whose
\* chain skips the record that lies between its two auxiliary records.
C10_Witness ==
    /\ pc = "done"
    /\ result.kind = "Ok"
    /\ result.value # None
    /\ Len(result.value[2].data) >= 1
    /\ result.value[2].data[1][2].aux_count = 2
    /\ Len(result.value[2].data[1][1]) = 2
    /\ result.value[2].data[1][1][1].hash = 101
    /\ result.value[2].data[1][1][2].hash = 103

\* C11: when no section header has the GnuVerNeed type, the one step
\* VersionSection::new takes returns Ok(None), neither an error nor a
\* panic, and leaves the reader as it was (same buffer, same position),
\* whether or not a ".dynstr" section exists.
C11_AbsentIsOkNone ==
    [][(/\ pc = "vs_start"
        /\ \A i \in 1..Len(args.headers.headers) :
              args.headers.headers[i].sh_type # Variant("GnuVerNeed"))
       => (/\ pc' = "done"
           /\ result' = Ok(None)
           /\ reader' = reader)]_vars

\* Ok(None) was returned for a table without a GnuVerNeed section and
\* without a ".dynstr" section, the cursor still away from the start.
C11_Witness ==
    /\ pc = "done"
    /\ result = Ok(None)
    /\ DynstrScan(args.headers, 1) = Return(None)
    /\ reader.pos = 8

-----------------------------------------------------------------------------
(* relocs.rs: relocation entries and sections.                             *)

\* read_i64::<LittleEndian>: the two's complement value of 8 bytes.
ReadI64At(buf, p) ==
    LET b == BytesAt(buf, p, 8) IN
    IF b[8] < 128 THEN FromLE(b)
    ELSE -(FromLE([i \in 1..8 |-> 255 - b[i]]) + 1)

\* The fields RelocationEntry::new always reads: offset, reltype, symidx.
RelocationEntryWidths == <<8, 4, 4>>

\* The bytes RelocationEntry::new reads.
RelocationEntrySize(has_addend) ==
    SumSeq(RelocationEntryWidths) + (IF has_addend THEN 8 ELSE 0)

\* RelocationEntry::new on the record at offset p.
RelocationEntryAt(buf, p, has_addend) ==
    LET v == ReadFields(buf, p, RelocationEntryWidths) IN
    [offset |-> v[1], reltype |-> v[2], symidx |-> v[3],
     addend |-> IF has_addend
                THEN Some(ReadI64At(buf, p + SumSeq(RelocationEntryWidths)))
                ELSE None]

\* `header.sh_type == SectionHeaderType::Rela`
HasAddendByEntrySize(header) == header.sh_entsize = 24

HasAddend(header) == header.sh_type = Variant("Rela")

\* The entry list is followed up to MaxEntries entries.
MaxEntries == 4

\* One iteration of RelocationSection::new: seek to the entry, read it (the
\* reads are unwrapped), push it, advance by the entry size of the header.
RS_ReadEntry ==
    /\ pc = "rs_loop"
    /\ locals.offset < args.header.sh_size
    /\ Len(locals.entries) < MaxEntries
    /\ UNCHANGED args
    /\ LET at == SeekStart(reader, args.header.sh_offset + locals.offset)
           has_addend == HasAddend(args.header) IN
       IF ~CanRead(at, RelocationEntrySize(has_addend))
       THEN /\ reader' \in AfterEof(at)
            /\ result' = Panic("unwrap on UnexpectedEof")
            /\ pc' = "done"
            /\ UNCHANGED locals
       ELSE /\ reader' = Advance(at, RelocationEntrySize(has_addend))
            /\ locals' = [entries |-> Append(locals.entries,
                              RelocationEntryAt(at.buf, at.pos, has_addend)),
                          offset |-> locals.offset + args.header.sh_entsize]
            /\ UNCHANGED <<pc, result>>

\* After the loop: the section with its entries and the kind of its header.
RS_Return ==
    /\ pc = "rs_loop"
    /\ ~(locals.offset < args.header.sh_size)
    /\ result' = Return([symtab |-> args.symtab, name |-> args.name,
                         entries |-> locals.entries,
                         kind |-> args.header.sh_type])
    /\ pc' = "done"
    /\ UNCHANGED <<args, locals, reader>>

\* --- inputs of SpecRelocs ---

\* The buffer holds up to MaxRelocs records, all with or all without an
\* addend.
MaxRelocs == 2

\* A record whose fields decode to small numbers wherever a read starts,
\* with the addend 5.
PlainRecord(with_addend) ==
    Encode(<<4096, 7, 0>>, RelocationEntryWidths)
        \o (IF with_addend THEN ToLE(5, 8) ELSE <<>>)

\* A record with a symbol index and the addend -2.
FullRecord(with_addend) ==
    Encode(<<8200, 1, 2>>, RelocationEntryWidths)
        \o (IF with_addend THEN <<254, 255, 255, 255, 255, 255, 255, 255>>
            ELSE <<>>)

RelocationRecords(with_addend) ==
    {PlainRecord(with_addend), FullRecord(with_addend)}

RelocationEntSizes == {0, 8, 16, 24}

InitRelocs ==
    /\ pc = "rs_loop"
    /\ locals = [entries |-> <<>>, offset |-> 0]
    /\ result = NoResult
    /\ \E with_addend \in BOOLEAN : \E k \in 0..MaxRelocs :
       \E t \in [1..k -> RelocationRecords(with_addend)] :
       \E off \in {0, 5} : \E entsize \in RelocationEntSizes :
       \E n \in 0..MaxRelocs : \E r \in {0, 1} : \E type \in {4, 9} :
          \* full records lie where the entry size places the reads
          /\ entsize # Len(PlainRecord(with_addend)) =>
                \A i \in 1..k : t[i] = PlainRecord(with_addend)
          /\ reader = [buf |-> Zeros(off) \o Concat(t), pos |-> 0]
          /\ args = [op |-> "RelocationSection::new",
                     header |-> Section(type, 1, off, entsize * n + r, 0, 0,
                                        entsize, 8),
                     name |-> <<46, 114>>,
                     symtab |-> [data |-> <<>>, strtab |-> StringTableEmpty,
                                 name |-> <<>>]]

NextRelocs == RS_ReadEntry \/ RS_Return

SpecRelocs == InitRelocs /\ [][NextRelocs]_vars

\* The i-th entry of a section is the record of `size` bytes at the
\* section's offset plus (i - 1) entry sizes: three unsigned fields and,
\* iff the record has 24 bytes, the signed addend that follows them.
EntryIsRecord(buf, header, entries, i, size) ==
    LET p == header.sh_offset + (i - 1) * header.sh_entsize IN
    /\ p + size <= Len(buf)
    /\ entries[i].offset = ReadAt(buf, p, 8)
    /\ entries[i].reltype = ReadAt(buf, p + 8, 4)
    /\ entries[i].symidx = ReadAt(buf, p + 12, 4)
    /\ entries[i].addend = IF size = 24 THEN Some(ReadI64At(buf, p + 16))
                           ELSE None

\* C12: every entry decoded for a Rela section is a 24-byte record
\* (8 + 4 + 4 + 8) and carries Some(addend), every entry decoded for a Rel
\* section is a 16-byte record and carries None, whatever the header's
\* entry size is; right after an entry was read the cursor stands 24 resp.
\* 16 bytes after the entry's start.
C12_AddendByType ==
    LET header == args.header
        size == IF header.sh_type = Variant("Rela") THEN 24 ELSE 16
        entries == locals.entries IN
    /\ \A i \in 1..Len(entries) :
          EntryIsRecord(reader.buf, header, entries, i, size)
    /\ (pc = "rs_loop" /\ entries # <<>>) =>
          reader.pos = header.sh_offset
                         + (Len(entries) - 1) * header.sh_entsize + size
    /\ (pc = "done" /\ result.kind = "Return") =>
          /\ result.value.entries = entries
          /\ result.value.kind = header.sh_type

\* A Rela section whose header declares 16-byte entries was returned with
\* two entries, the first with the addend 5.
C12_Witness ==
    /\ pc = "done"
    /\ result.kind = "Return"
    /\ args.header.sh_type = Variant("Rela")
    /\ args.header.sh_entsize = 16
    /\ Len(result.value.entries) = 2
    /\ result.value.entries[1].addend = Some(5)
    /\ result.value.entries[2].offset = 5

-----------------------------------------------------------------------------
(* Reads that run off the end of the buffer.                               *)

\* C13: a fixed-width read that runs off the end of the buffer while
\* section headers, program headers, symbols, relocation entries or
\* dynamic entries are decoded reaches the caller as a failure value: no
\* decoder ends in the panic of an unwrapped read.
C13_ReadFailureIsError == result # Panic("unwrap on UnexpectedEof")

-----------------------------------------------------------------------------
(* The open enumerations: FileClass, Encoding, OsAbi, ObjectType, Version  *)
(* (file.rs), SegmentType (program.rs), SectionHeaderType (section.rs),    *)
(* DynamicEntryTag (dynamic.rs).                                           *)

\* The decoders and the width in bits of the raw value each takes.
EnumBits ==
    [FileClass |-> 8, Encoding |-> 8, OsAbi |-> 8, ObjectType |-> 16,
     Version |-> 32, SegmentType |-> 32, SectionHeaderType |-> 32,
     DynamicEntryTag |-> 64]

\* T::new(value) of the decoder named.
EnumNew(decoder, value) ==
    CASE decoder = "FileClass" -> FileClassNew(value)
      [] decoder = "Encoding" -> EncodingNew(value)
      [] decoder = "OsAbi" -> OsAbiNew(value)
      [] decoder = "ObjectType" -> ObjectTypeNew(value)
      [] decoder = "Version" -> VersionNew(value)
      [] decoder = "SegmentType" -> SegmentTypeNew(value)
      [] decoder = "SectionHeaderType" -> SectionHeaderTypeNew(value)
      [] decoder = "DynamicEntryTag" -> DynamicEntryTagNew(value)

\* Two calls of one decoder.
EN_Decode ==
    /\ pc = "en_start"
    /\ result' = Return(<<EnumNew(args.decoder, args.value),
                          EnumNew(args.decoder, args.other)>>)
    /\ pc' = "done"
    /\ UNCHANGED <<args, locals, reader>>

\* --- inputs of SpecEnums ---

\* The raw values: everything up to MaxRaw, and the codes further out with
\* their neighbours.
MaxRaw == 35

RawValues ==
    0..MaxRaw
      \cup {63, 64, 65, 96, 97, 98, 254, 255, 256, 65535, 65536}
      \cup 1685382479..1685382483
      \cup 1879047924..1879047926
      \cup 1879048175..1879048192

InitEnums ==
    /\ pc = "en_start"
    /\ locals = <<>>
    /\ reader = [buf |-> <<>>, pos |-> 0]
    /\ result = NoResult
    /\ \E decoder \in DOMAIN EnumBits : \E value, other \in RawValues :
          /\ EnumBits[decoder] = 8 => (value < 256 /\ other < 256)
          /\ EnumBits[decoder] = 16 => (value < 65536 /\ other < 65536)
          /\ args = [op |-> "new", decoder |-> decoder, value |-> value,
                     other |-> other]

NextEnums == EN_Decode

SpecEnums == InitEnums /\ [][NextEnums]_vars

\* The numeric codes each enumeration names (ELF gABI and the GNU
\* extensions the program knows).
KnownCodes ==
    [FileClass |-> 0..2, Encoding |-> 0..2,
     OsAbi |-> (0..3) \cup (6..12) \cup {64, 97, 255},
     ObjectType |-> 0..4, Version |-> 0..1,
     SegmentType |-> (0..7) \cup (1685382480..1685382482),
     SectionHeaderType |-> (0..9) \cup {11} \cup (14..18)
                             \cup (1879048181..1879048184)
                             \cup (1879048189..1879048191),
     DynamicEntryTag |-> (0..34) \cup {1879047925, 1879048176}
                           \cup (1879048185..1879048191)]

\* The variant that carries the raw value.
CatchAll ==
    [FileClass |-> "Invalid", Encoding |-> "Invalid", OsAbi |-> "Invalid",
     ObjectType |-> "Invalid", Version |-> "Invalid",
     SegmentType |-> "Unknown", SectionHeaderType |-> "Unknown",
     DynamicEntryTag |-> "Unknown"]

\* A decoded variant is right for the raw value v: a named variant without
\* payload for a known code, the catch-all variant carrying v otherwise.
DecodedFrom(decoder, variant, v) ==
    IF v \in KnownCodes[decoder]
    THEN Len(variant) = 1 /\ variant[1] # CatchAll[decoder]
    ELSE variant = <<CatchAll[decoder], v>>

\* C14: every decoder returns for every raw value; a known code gives a
\* named variant, any other value v the Unknown/Invalid variant carrying
\* exactly v; two distinct raw values, recognized or not, never decode to
\* the same variant.
C14_EnumsTotal ==
    pc = "done" =>
       /\ result.kind = "Return"
       /\ DecodedFrom(args.decoder, result.value[1], args.value)
       /\ DecodedFrom(args.decoder, result.value[2], args.other)
       /\ args.value # args.other => result.value[1] # result.value[2]

\* Two distinct unrecognized segment types were decoded, each kept in its
\* Unknown variant.
C14_Witness ==
    /\ pc = "done"
    /\ args.decoder = "SegmentType"
    /\ args.value = 8
    /\ args.other = 1685382483
    /\ result = Return(<<Raw("Unknown", 8), Raw("Unknown", 1685382483)>>)

-----------------------------------------------------------------------------
(* notes.rs: NoteSections::new.                                            *)

\* ProgramHeaders::get_all
ProgramGetAll(prheaders, kind) ==
    SelectSeq(prheaders.headers, LAMBDA h : h.p_type = kind)

\* "Note program header"
NoteProgramHeader ==
    <<78, 111, 116, 101, 32, 112, 114, 111, 103, 114, 97, 109, 32,
      104, 101, 97, 100, 101, 114>>

\* `if data.is_empty()`
SegmentFallbackAlways(data) == TRUE

SegmentFallback(data) == data = <<>>

\* The loop over the sections of Note type, up to the loop of
\* new_from_file: the section's name, then the seek to its region.
NS_Section ==
    /\ pc = "ns_sections"
    /\ locals.i < Len(GetAll(args.headers, Variant("Note")))
    /\ UNCHANGED args
    /\ LET header == GetAll(args.headers, Variant("Note"))[locals.i + 1] IN
       IF GetPanics(args.headers.strtab, header.sh_name)
       THEN /\ result' = Panic("range start index out of range")
            /\ pc' = "done"
            /\ UNCHANGED <<locals, reader>>
       ELSE /\ locals' = [locals EXCEPT
                             !.from = "ns_sections",
                             !.offset = header.sh_offset,
                             !.size = header.sh_size,
                             !.align = header.sh_addralign,
                             !.name = StringTableGet(args.headers.strtab,
                                                     header.sh_name),
                             !.notes = <<>>,
                             !.pos = 0]
            /\ reader' = SeekStart(reader, header.sh_offset)
            /\ pc' = "ns_note"
            /\ UNCHANGED result

\* After the sections: on to the segments when nothing was collected.
NS_Fallback ==
    /\ pc = "ns_sections"
    /\ ~(locals.i < Len(GetAll(args.headers, Variant("Note"))))
    /\ pc' = IF SegmentFallback(locals.data) THEN "ns_segments" ELSE "ns_return"
    /\ UNCHANGED <<args, locals, reader, result>>

\* The loop over the segments of Note type, up to the loop of
\* new_from_file.
NS_Segment ==
    /\ pc = "ns_segments"
    /\ locals.j < Len(ProgramGetAll(args.prheaders, Variant("Note")))
    /\ LET prheader ==
               ProgramGetAll(args.prheaders, Variant("Note"))[locals.j + 1] IN
       /\ locals' = [locals EXCEPT
                        !.from = "ns_segments",
                        !.offset = prheader.p_offset,
                        !.size = prheader.p_filesz,
                        !.align = prheader.p_align,
                        !.name = NoteProgramHeader,
                        !.notes = <<>>,
                        !.pos = 0]
       /\ reader' = SeekStart(reader, prheader.p_offset)
    /\ pc' = "ns_note"
    /\ UNCHANGED <<args, result>>

\* One iteration of the loop of new_from_file; the error of Note::new is
\* returned through both `?`.
NS_ReadNote ==
    /\ pc = "ns_note"
    /\ NoteLoopGuard(locals.pos, locals.size)
    /\ UNCHANGED args
    /\ LET at == SeekStart(reader, locals.offset + locals.pos)
           note == NoteNew(args.addrsize, locals.align, at) IN
       IF note.kind # "Ok"
       THEN /\ reader' \in AfterEof(at)
            /\ result' = note
            /\ pc' = "done"
            /\ UNCHANGED locals
       ELSE LET n == note.value
                pos == locals.pos
                        + note_next_offset(n.name_size, n.desc_size,
                                           locals.align) IN
            /\ reader' = AfterNoteNew(locals.align, at)
            /\ UNCHANGED result
            /\ IF n.name_size = 0
               THEN /\ locals' = [locals EXCEPT !.pos = pos]
                    /\ pc' = "ns_break"
               ELSE /\ locals' = [locals EXCEPT
                                     !.notes = Append(locals.notes, n),
                                     !.pos = pos]
                    /\ pc' = "ns_note"

\* new_from_file returns; its NoteSection is pushed and the loop it was
\* called from goes on.
NS_Push ==
    /\ \/ pc = "ns_break"
       \/ pc = "ns_note" /\ ~NoteLoopGuard(locals.pos, locals.size)
    /\ locals' = [locals EXCEPT
                     !.data = Append(locals.data,
                                     [data |-> locals.notes,
                                      name |-> locals.name]),
                     !.i = IF locals.from = "ns_sections"
                           THEN locals.i + 1 ELSE locals.i,
                     !.j = IF locals.from = "ns_segments"
                           THEN locals.j + 1 ELSE locals.j]
    /\ pc' = locals.from
    /\ UNCHANGED <<args, reader, result>>

NS_Return ==
    /\ \/ pc = "ns_return"
       \/ /\ pc = "ns_segments"
          /\ ~(locals.j < Len(ProgramGetAll(args.prheaders, Variant("Note"))))
    /\ result' = Ok([data |-> locals.data])
    /\ pc' = "done"
    /\ UNCHANGED <<args, locals, reader>>

\* --- inputs of SpecNoteSections ---

\* Tables of up to MaxNoteHeaders sections and as many segments.
MaxNoteHeaders == 2

\* The file: a "GNU\0" note at 0, an "ABCDEFG\0" note at 16, a "CORE\0"
\* note at 40; 64 bytes.
NoteFile ==
    NoteRecord(NameGnu, 3, 0, <<>>, 4)
      \o NoteRecord(<<65, 66, 67, 68, 69, 70, 71, 0>>, 1, 4, <<1, 2, 3, 4>>, 4)
      \o NoteRecord(NameCore, 1, 2, <<7, 9>>, 4)

\* Section names: "\0.n\0.m\0".
NoteNames == <<0, 46, 110, 0, 46, 109, 0>>

\* Sections: notes at 0..16, at 16..40, at 0..40, an empty region, a region
\* that leaves the file, and a string table.
NoteSectionChoices ==
    {Section(7, 1, 0, 16, 0, 0, 0, 4), Section(7, 4, 16, 24, 0, 0, 0, 4),
     Section(7, 1, 0, 40, 0, 0, 0, 4), Section(7, 4, 8, 0, 0, 0, 0, 4),
     Section(7, 1, 56, 16, 0, 0, 0, 4), Section(3, 1, 0, 4, 0, 0, 0, 1)}

Segment(type, offset, filesz, align) ==
    [p_type |-> SegmentTypeNew(type), p_flags |-> 4, p_offset |-> offset,
     p_vaddr |-> 0, p_paddr |-> 0, p_filesz |-> filesz, p_memsiz |-> filesz,
     p_align |-> align]

\* Segments: notes at 40..64, at 0..16, a region that leaves the file, and
\* a loadable segment.
NoteSegmentChoices ==
    {Segment(4, 40, 24, 4), Segment(4, 0, 16, 4), Segment(4, 56, 16, 4),
     Segment(1, 0, 64, 4096)}

InitNoteSections ==
    /\ pc = "ns_sections"
    /\ locals = [data |-> <<>>, i |-> 0, j |-> 0, from |-> "ns_sections",
                 offset |-> 0, size |-> 0, align |-> 0, name |-> <<>>,
                 notes |-> <<>>, pos |-> 0]
    /\ result = NoResult
    /\ reader = [buf |-> NoteFile, pos |-> 0]
    /\ \E ns, np \in 0..MaxNoteHeaders :
       \E hs \in [1..ns -> NoteSectionChoices] :
       \E ps \in [1..np -> NoteSegmentChoices] :
          args = [op |-> "NoteSections::new", addrsize |-> 8,
                  headers |-> [headers |-> hs, strtab |-> [buffer |-> NoteNames]],
                  prheaders |-> [headers |-> ps]]

NextNoteSections ==
    NS_Section \/ NS_Fallback \/ NS_Segment \/ NS_ReadNote \/ NS_Push \/ NS_Return

SpecNoteSections == InitNoteSections /\ [][NextNoteSections]_vars

\* What a walk of a region from `pos` on yields: the notes up to the end
\* of the region or a record without name, or the first error, and the
\* reader as the last seek or read left it.
RECURSIVE NotesLoop(_, _, _, _, _, _, _)
NotesLoop(addrsize, offset, size, align, r, pos, data) ==
    IF ~NoteLoopGuard(pos, size) THEN [res |-> Ok(data), reader |-> r]
    ELSE LET at == SeekStart(r, offset + pos)
             note == NoteNew(addrsize, align, at) IN
         IF note.kind # "Ok" THEN [res |-> note, reader |-> at]
         ELSE LET n == note.value
                  after == AfterNoteNew(align, at) IN
              IF n.name_size = 0 THEN [res |-> Ok(data), reader |-> after]
              ELSE NotesLoop(addrsize, offset, size, align, after,
                             pos + note_next_offset(n.name_size, n.desc_size,
                                                    align),
                             Append(data, n))

\* The NoteSection of a region.
NewFromFile(addrsize, offset, size, align, name, r) ==
    LET walk == NotesLoop(addrsize, offset, size, align,
                          SeekStart(r, offset), 0, <<>>) IN
    [res |-> IF walk.res.kind = "Ok"
             THEN Ok([data |-> walk.res.value, name |-> name])
             ELSE walk.res,
     reader |-> walk.reader]

\* The headers of Note type, in table order.
NoteSectionsOf(headers) ==
    SelectSeq(headers.headers, LAMBDA h : h.sh_type = Variant("Note"))

NoteSegmentsOf(prheaders) ==
    SelectSeq(prheaders.headers, LAMBDA h : h.p_type = Variant("Note"))

\* C15: a NoteSections that is returned holds, when the table has sections
\* of Note type, one NoteSection per such section in table order (named
\* after it and read from its region) and nothing from the segments; only
\* when the table has no section of Note type does it hold one NoteSection
\* per segment of Note type, in table order.
C15_SectionsBeforeSegments ==
    (pc = "done" /\ result.kind = "Ok") =>
       LET data == result.value.data
           secs == NoteSectionsOf(args.headers)
           segs == NoteSegmentsOf(args.prheaders) IN
       IF secs # <<>>
       THEN /\ Len(data) = Len(secs)
            /\ \A i \in 1..Len(secs) :
                  data[i] = NewFromFile(args.addrsize, secs[i].sh_offset,
                                secs[i].sh_size, secs[i].sh_addralign,
                                StringTableGet(args.headers.strtab,
                                               secs[i].sh_name),
                                reader).res.value
       ELSE /\ Len(data) = Len(segs)
            /\ \A i \in 1..Len(segs) :
                  data[i] = NewFromFile(args.addrsize, segs[i].p_offset,
                                segs[i].p_filesz, segs[i].p_align,
                                NoteProgramHeader, reader).res.value

\* One section of Note type, whose region is empty, and segments of Note
\* type: the result is the one NoteSection without notes, named ".m".
C15_Witness ==
    /\ pc = "done"
    /\ result.kind = "Ok"
    /\ Len(NoteSegmentsOf(args.prheaders)) = 2
    /\ Len(args.headers.headers) = 2
    /\ result.value.data = <<[data |-> <<>>, name |-> <<46, 109>>]>>

-----------------------------------------------------------------------------
(* notes.rs: Note::new on one record.                                      *)

\* Note::new at the cursor.
NN_New ==
    /\ pc = "nn_start"
    /\ LET note == NoteNew(args.addrsize, args.align, reader) IN
       /\ result' = note
       /\ IF note.kind = "Ok"
          THEN reader' = AfterNoteNew(args.align, reader)
          ELSE reader' \in AfterEof(reader)
    /\ pc' = "done"
    /\ UNCHANGED <<args, locals>>

\* --- inputs of SpecNote ---

\* Names: "GNU\0", "GNU", "LINUX\0", "LINUX", "CORE\0", "CORE", "gnu\0",
\* "GNU\0\0", "XY\0".
OwnerNames ==
    {NameGnu, <<71, 78, 85>>, NameLinux, <<76, 73, 78, 85, 88>>, NameCore,
     <<67, 79, 82, 69>>, <<103, 110, 117, 0>>, <<71, 78, 85, 0, 0>>,
     <<88, 89, 0>>}

\* Types: 1, 2, 3, 9, 0x202 and 0x46494c45.
OwnerTypes == {1, 2, 3, 9, 514, 1179208773}

\* Descriptors: none; the 16 bytes of an ABI tag; a table of one mapped
\* file "a" for 8-byte addresses.
OwnerDescs ==
    {<<>>,
     Encode(<<1, 0, 6, 0>>, <<4, 4, 4, 4>>),
     Encode(<<1, 4096, 4194304, 4198400, 0>>, <<8, 8, 8, 8, 8>>) \o <<97, 0>>}

InitNote ==
    /\ pc = "nn_start"
    /\ locals = <<>>
    /\ result = NoResult
    /\ \E name \in OwnerNames : \E type \in OwnerTypes : \E desc \in OwnerDescs :
       \E addrsize \in {4, 8} :
          /\ reader = [buf |-> NoteRecord(name, type, Len(desc), desc, 4),
                       pos |-> 0]
          /\ args = [op |-> "Note::new", addrsize |-> addrsize, align |-> 4,
                     name |-> name, type |-> type, desc |-> desc]

NextNote == NN_New

SpecNote == InitNote /\ [][NextNote]_vars

\* C16: the owner of a decoded note is decided by its whole name, the NUL
\* included, and its type and descriptor are read through that owner: type
\* 1 is ElfNoteAbi under "GNU\0", PrStatus under "LINUX\0" and "CORE\0" and
\* Version under any other name; type 3 is a build id under "GNU\0" only; a
\* note of any other name keeps its type 1 as Version, any other type as
\* Unknown(type) and its descriptor as raw bytes; the descriptor is a
\* mapped-files table exactly for a "LINUX\0" or "CORE\0" note of type
\* 0x46494c45.
C16_OwnerByExactName ==
    (pc = "done" /\ result.kind = "Ok") =>
       LET n == result.value
           gnu == args.name = <<71, 78, 85, 0>>
           core == args.name \in {<<76, 73, 78, 85, 88, 0>>, <<67, 79, 82, 69, 0>>}
       IN
       /\ n.name = args.name
       /\ args.type = 1 =>
             n.note_type = IF gnu THEN <<"ElfNoteAbi">>
                           ELSE IF core THEN <<"PrStatus">>
                           ELSE <<"Version">>
       /\ n.note_type = <<"GnuBuildID">> <=> (gnu /\ args.type = 3)
       /\ n.note_type = <<"PrPsInfo">> <=> (core /\ args.type = 3)
       /\ (~gnu /\ ~core) =>
             /\ args.type # 1 => n.note_type = <<"Unknown", args.type>>
             /\ n.desc = <<"Unknown", args.desc>>
       /\ n.desc[1] = "ElfNoteAbi" <=> (gnu /\ args.type = 1)
       /\ n.desc[1] = "MappedFiles" <=> (core /\ args.type = 1179208773)

\* A note named "CORE", without the NUL, of type 0x46494c45 with a
\* mapped-files table as descriptor was decoded as a generic note.
C16_Witness ==
    /\ pc = "done"
    /\ result.kind = "Ok"
    /\ args.name = <<67, 79, 82, 69>>
    /\ args.type = 1179208773
    /\ Len(args.desc) = 42
    /\ result.value.note_type = <<"Unknown", 1179208773>>
    /\ result.value.desc = <<"Unknown", args.desc>>

\* The version-need section the decoder works on: the last header of the
\* GnuVerNeed type.
VerNeedHeader(headers) ==
    LET all == SelectSeq(headers.headers,
                         LAMBDA h : h.sh_type = Variant("GnuVerNeed")) IN
    all[Len(all)]

\* C17: a VersionSection that is returned holds exactly sh_info pairs, the
\* j-th with the version-need record read at the section's offset plus the
\* next_offset fields of the records before it, also when a next_offset is
\* zero and a record is read again; while the loops run, one pair has been
\* collected per outer step and never more than sh_info.
C17_CountDriven ==
    /\ pc \in {"vs_loop", "vs_aux"} =>
          /\ Len(locals.data) = locals.cnt
          /\ locals.cnt <= VerNeedHeader(args.headers).sh_info
          /\ pc = "vs_aux" => locals.cnt < VerNeedHeader(args.headers).sh_info
    /\ (pc = "done" /\ result.kind = "Ok" /\ result.value # None) =>
          LET data == result.value[2].data
              header == VerNeedHeader(args.headers) IN
          /\ Len(data) = header.sh_info
          /\ \A j \in 1..Len(data) :
                data[j][2] = VersionNeedAt(reader.buf,
                                 NeedStart(header.sh_offset, data, j))

\* A section with sh_info = 2 whose first record has next_offset = 0 was
\* returned: two pairs, both read from the first record with its one
\* auxiliary record.
C17_Witness ==
    /\ pc = "done"
    /\ result.kind = "Ok"
    /\ result.value # None
    /\ VerNeedHeader(args.headers).sh_info = 2
    /\ Len(result.value[2].data) = 2
    /\ result.value[2].data[1][2].next_offset = 0
    /\ result.value[2].data[1][2].aux_count = 1
    /\ result.value[2].data[2] = result.value[2].data[1]

\* The values of the entries of a tag among the entries read.
ValuesOf(entries, tag) ==
    {entries[i].value : i \in {j \in 1..Len(entries) : entries[j].tag = tag}}

\* C18: the string table of a DynamicSection that was returned, whose
\* entries carry a Strtab and a StrtabSize entry, is the table loaded from
\* a section header of Strtab type whose address and size are the values
\* of those entries.
C18_StrtabByAddressAndSize ==
    (/\ pc = "done"
     /\ result.kind = "Return"
     /\ result.value # None
     /\ ValuesOf(result.value[2].data, Variant("Strtab")) # {}
     /\ ValuesOf(result.value[2].data, Variant("StrtabSize")) # {})
    => \E i \in 1..Len(args.headers.headers) :
          LET h == args.headers.headers[i] IN
          /\ h.sh_type = Variant("Strtab")
          /\ h.sh_addr \in ValuesOf(result.value[2].data, Variant("Strtab"))
          /\ h.sh_size \in ValuesOf(result.value[2].data, Variant("StrtabSize"))
          /\ result.value[2].strtab = StringTableNew(h, reader)

-----------------------------------------------------------------------------
(* section.rs: get_all and get, and the decoders that start with get.      *)

\* headers.get_all(header_type) and headers.get(header_type).
SQ_Get ==
    /\ pc = "sq_start"
    /\ result' = Return([get_all |-> GetAll(args.headers, args.header_type),
                         get |-> Get(args.headers, args.header_type)])
    /\ pc' = "done"
    /\ UNCHANGED <<args, locals, reader>>

\* --- inputs of SpecSectionQuery ---

\* Tables of up to MaxHeaders sections.
MaxHeaders == 3

\* Two dynamic sections and two version-need sections, at different
\* offsets, and a string table.
QuerySections ==
    {Section(6, 17, 0, 32, 2, 0, 16, 8), Section(6, 17, 16, 32, 2, 0, 16, 8),
     Section(1879048190, 9, 0, 64, 1, 1, 0, 8),
     Section(1879048190, 9, 8, 64, 1, 2, 0, 8),
     Section(3, 1, 0, 4, 0, 0, 0, 1)}

\* The types asked for: Strtab, Dynamic, Note, GnuVerNeed.
QueryTypes == {3, 6, 7, 1879048190}

\* A query, or the start of DynamicSection::new or VersionSection::new.
InitSectionQuery ==
    /\ result = NoResult
    /\ reader = [buf |-> Zeros(8), pos |-> 3]
    /\ \E n \in 0..MaxHeaders : \E hs \in [1..n -> QuerySections] :
       LET headers == [headers |-> hs, strtab |-> [buffer |-> VersionNames]] IN
       \/ /\ pc = "sq_start"
          /\ locals = <<>>
          /\ \E type \in QueryTypes :
                args = [op |-> "SectionHeaders::get", headers |-> headers,
                        header_type |-> SectionHeaderTypeNew(type)]
       \/ /\ pc = "dy_start"
          /\ locals = [header |-> None, entries |-> <<>>]
          /\ args = [op |-> "DynamicSection::new", headers |-> headers,
                     reader |-> reader]
       \/ /\ pc = "vs_start"
          /\ locals = [header |-> None, offset |-> 0, data |-> <<>>,
                       aux |-> <<>>, cnt |-> 0, verneed |-> None,
                       aux_offset |-> 0, i |-> 0]
          /\ args = [op |-> "VersionSection::new", headers |-> headers]

NextSectionQuery == SQ_Get \/ DY_Start \/ VS_Start

SpecSectionQuery == InitSectionQuery /\ [][NextSectionQuery]_vars

\* The positions in the table of the headers of a type.
PositionsOf(headers, type) ==
    {i \in 1..Len(headers.headers) : headers.headers[i].sh_type = type}

\* The header at the greatest of a non-empty set of positions.
LastAt(headers, ps) ==
    headers.headers[CHOOSE i \in ps : \A j \in ps : j <= i]

\* A list holds the headers at the positions ps, in table order.
InTableOrder(list, headers, ps) ==
    /\ Len(list) = Cardinality(ps)
    /\ \A k \in 1..Len(list) :
          \E i \in ps : /\ Cardinality({j \in ps : j <= i}) = k
                        /\ list[k] = headers.headers[i]

\* C19: get(type) is None exactly when no header has the type and the last
\* header of the type in table order otherwise, get_all(type) being the
\* headers of the type in table order; DynamicSection::new and
\* VersionSection::new go on with the last header of their type (the
\* former seeks to its offset) and return None resp. Ok(None) when there is
\* none.
C19_GetIsLast ==
    /\ (pc = "done" /\ args.op = "SectionHeaders::get") =>
          LET ps == PositionsOf(args.headers, args.header_type) IN
          /\ InTableOrder(result.value.get_all, args.headers, ps)
          /\ result.value.get = None <=> ps = {}
          /\ ps # {} => result.value.get = Some(LastAt(args.headers, ps))
    /\ args.op = "DynamicSection::new" =>
          LET ps == PositionsOf(args.headers, Variant("Dynamic")) IN
          /\ pc = "done" <=> (ps = {} /\ result = Return(None))
          /\ pc = "dy_loop" =>
                /\ ps # {}
                /\ locals.header = LastAt(args.headers, ps)
                /\ reader.pos = LastAt(args.headers, ps).sh_offset
    /\ args.op = "VersionSection::new" =>
          LET ps == PositionsOf(args.headers, Variant("GnuVerNeed")) IN
          /\ pc = "done" <=> (ps = {} /\ result = Ok(None))
          /\ pc = "vs_loop" =>
                /\ ps # {}
                /\ locals.header = LastAt(args.headers, ps)

\* get(Dynamic) on a table of two different dynamic sections and a string
\* table between them returned the second dynamic section.
C19_Witness ==
    /\ pc = "done"
    /\ args.op = "SectionHeaders::get"
    /\ args.header_type = Variant("Dynamic")
    /\ Len(args.headers.headers) = 3
    /\ args.headers.headers[2].sh_type = Variant("Strtab")
    /\ args.headers.headers[1] # args.headers.headers[3]
    /\ Len(result.value.get_all) = 2
    /\ result.value.get = Some(args.headers.headers[3])

-----------------------------------------------------------------------------
(* section.rs: SectionHeaders::dynstr.                                     *)

\* headers.dynstr(reader)
DS_Dynstr ==
    /\ pc = "ds_start"
    /\ LET found == DynstrScan(args.headers, 1) IN
       IF found.kind = "panic"
       THEN /\ result' = found
            /\ UNCHANGED reader
       ELSE IF found.value = None
       THEN /\ result' = Return(None)
            /\ UNCHANGED reader
       ELSE LET header == args.headers.headers[found.value[2]] IN
            /\ result' = Return(Some(StringTableNew(header, reader)))
            /\ reader' = AfterStringTableNew(header, reader)
    /\ pc' = "done"
    /\ UNCHANGED <<args, locals>>

\* --- inputs of SpecDynstr ---

\* Tables of up to MaxDynstrHeaders sections.
MaxDynstrHeaders == 3

\* Section names: "\0.dynstr\0.dynstrx\0".
DynstrNames == <<0>> \o DotDynstr \o <<0>> \o DotDynstr \o <<120, 0>>

\* Two string tables named ".dynstr", string tables named "dynstr" and
\* ".dynstrx", a Data section named ".dynstr", and a string table whose
\* name lies outside the name table.
DynstrSections ==
    {Section(3, 1, 0, 4, 0, 0, 0, 1), Section(3, 1, 4, 3, 0, 0, 0, 1),
     Section(3, 2, 1, 2, 0, 0, 0, 1), Section(3, 9, 2, 2, 0, 0, 0, 1),
     Section(1, 1, 3, 4, 0, 0, 0, 1), Section(3, 40, 5, 2, 0, 0, 0, 1)}

InitDynstr ==
    /\ pc = "ds_start"
    /\ locals = <<>>
    /\ result = NoResult
    /\ reader = [buf |-> <<10, 11, 12, 13, 14, 15, 16, 17>>, pos |-> 2]
    /\ \E n \in 0..MaxDynstrHeaders : \E hs \in [1..n -> DynstrSections] :
          args = [op |-> "SectionHeaders::dynstr",
                  headers |-> [headers |-> hs,
                               strtab |-> [buffer |-> DynstrNames]]]

NextDynstr == DS_Dynstr

SpecDynstr == InitDynstr /\ [][NextDynstr]_vars

\* The positions of the sections of Strtab type whose name, the bytes of
\* the name table from sh_name up to the next NUL, is ".dynstr".
DynstrPositions(headers) ==
    {i \in 1..Len(headers.headers) :
        LET h == headers.headers[i]
            rest == SubSeq(headers.strtab.buffer, h.sh_name + 1,
                           Len(headers.strtab.buffer)) IN
        /\ h.sh_type = Variant("Strtab")
        /\ Len(rest) > Len(DotDynstr)
        /\ SubSeq(rest, 1, Len(DotDynstr)) = DotDynstr
        /\ rest[Len(DotDynstr) + 1] = 0}

\* C20: when dynstr returns, it returns the string table loaded from the
\* first section in table order that has the Strtab type and is named
\* exactly ".dynstr", and None when the table has no such section; a
\* section of another type named ".dynstr" is never the one loaded.
C20_DynstrFirstByName ==
    (pc = "done" /\ result.kind = "Return") =>
       LET ps == DynstrPositions(args.headers) IN
       IF ps = {} THEN result.value = None /\ reader.pos = 2
       ELSE LET first == CHOOSE i \in ps : \A j \in ps : i <= j
                h == args.headers.headers[first] IN
            /\ result.value =
                  Some([buffer |-> BytesAt(reader.buf, h.sh_offset, h.sh_size)])
            /\ reader.pos = h.sh_offset + h.sh_size

\* A Data section named ".dynstr", then a string table named ".dynstrx",
\* then a string table named ".dynstr": the table of the third was
\* returned.
C20_Witness ==
    /\ pc = "done"
    /\ Len(args.headers.headers) = 3
    /\ args.headers.headers[1] = Section(1, 1, 3, 4, 0, 0, 0, 1)
    /\ args.headers.headers[2] = Section(3, 9, 2, 2, 0, 0, 0, 1)
    /\ result = Return(Some([buffer |-> <<14, 15, 16>>]))

-----------------------------------------------------------------------------
(* interpret.rs: Interpret::new.                                           *)

\* String::from_utf8(data): the same bytes, when they are well-formed UTF-8.
RECURSIVE FromUtf8TrimmingNul(_)
FromUtf8TrimmingNul(data) ==
    IF data # <<>> /\ data[Len(data)] = 0
    THEN FromUtf8TrimmingNul(SubSeq(data, 1, Len(data) - 1))
    ELSE IF Utf8Valid(data) THEN Ok(data) ELSE Err([error |-> "FromUtf8Error"])

FromUtf8(data) ==
    IF Utf8Valid(data) THEN Ok(data) ELSE Err([error |-> "FromUtf8Error"])

\* reader.seek(SeekFrom::Start(header.p_offset))
SeekToSegmentFromCursor(r, header) == Advance(r, header.p_offset)

SeekToSegment(r, header) == SeekStart(r, header.p_offset)

\* One turn of `for header in &headers.headers`: headers of another type
\* are skipped; the first Interp header has the cursor moved to its
\* p_offset.
IN_Header ==
    /\ pc = "in_loop"
    /\ locals.i < Len(args.prheaders.headers)
    /\ LET header == args.prheaders.headers[locals.i + 1] IN
       IF header.p_type # Variant("Interp")
       THEN /\ locals' = [locals EXCEPT !.i = locals.i + 1]
            /\ UNCHANGED <<reader, pc>>
       ELSE /\ reader' = SeekToSegment(reader, header)
            /\ pc' = "in_read"
            /\ UNCHANGED locals
    /\ UNCHANGED <<args, result>>

\* read_exact of p_filesz bytes and String::from_utf8, both unwrapped,
\* then `break`.
IN_Read ==
    /\ pc = "in_read"
    /\ LET header == args.prheaders.headers[locals.i + 1] IN
       IF ~CanRead(reader, header.p_filesz)
       THEN /\ reader' \in AfterEof(reader)
            /\ result' = Panic("unwrap on UnexpectedEof")
            /\ pc' = "done"
            /\ UNCHANGED locals
       ELSE LET data == BytesAt(reader.buf, reader.pos, header.p_filesz)
                s == FromUtf8(data) IN
            /\ reader' = Advance(reader, header.p_filesz)
            /\ IF s.kind = "Err"
               THEN /\ result' = Panic("unwrap on FromUtf8Error")
                    /\ pc' = "done"
                    /\ UNCHANGED locals
               ELSE /\ locals' = [locals EXCEPT !.path = s.value]
                    /\ pc' = "in_return"
                    /\ UNCHANGED result
    /\ UNCHANGED args

\* `Interpret { path }`, after the loop ran out of headers or broke.
IN_Return ==
    /\ \/ pc = "in_return"
       \/ pc = "in_loop" /\ locals.i >= Len(args.prheaders.headers)
    /\ result' = Return([path |-> locals.path])
    /\ pc' = "done"
    /\ UNCHANGED <<args, locals, reader>>

\* --- inputs of SpecInterpret ---

\* Tables of up to MaxInterpHeaders program headers.
MaxInterpHeaders == 3

\* The file: "/ld\0", "/x\0" and a byte that no UTF-8 text holds.
InterpFile == <<47, 108, 100, 0, 47, 120, 0, 255>>

\* Interpreter segments over "/ld\0", "/x\0", "/x", the bytes 00 ff, a
\* range that leaves the file and an empty range; a loadable segment.
InterpSegmentChoices ==
    {Segment(3, 0, 4, 1), Segment(3, 4, 3, 1), Segment(3, 4, 2, 1),
     Segment(3, 6, 2, 1), Segment(3, 6, 4, 1), Segment(3, 2, 0, 1),
     Segment(1, 0, 8, 4096)}

\* The cursor positions Interpret::new is entered with.
EntryPositions == {0, 3, 8}

InitInterpret ==
    /\ pc = "in_loop"
    /\ locals = [i |-> 0, path |-> <<>>]
    /\ result = NoResult
    /\ \E n \in 0..MaxInterpHeaders :
       \E ps \in [1..n -> InterpSegmentChoices] :
       \E p \in EntryPositions :
          /\ args = [op |-> "Interpret::new", prheaders |-> [headers |-> ps],
                     entry |-> p]
          /\ reader = [buf |-> InterpFile, pos |-> p]

NextInterpret == IN_Header \/ IN_Read \/ IN_Return

SpecInterpret == InitInterpret /\ [][NextInterpret]_vars

\* The positions (from 1) of the Interp headers of a table.
InterpPositions(prheaders) ==
    {k \in 1..Len(prheaders.headers) :
        prheaders.headers[k].p_type = Variant("Interp")}

-----------------------------------------------------------------------------
(* section.rs: the section-name string table of SectionHeaders::new.       *)

\* C24: with e_shnum = 0 SectionHeaders::new returns no headers and the
\* empty string table, and does not panic on an index, whatever e_shstrndx
\* is and whatever the buffer holds at e_shoff.
C24_NoSectionsNoIndexing ==
    (pc = "done" /\ args.op = "SectionHeaders::new"
       /\ args.header.e_shnum = 0) =>
          result = Return([headers |-> <<>>, strtab |-> [buffer |-> <<>>]])

\* SectionHeaders::new has returned for e_shnum = 0 and e_shstrndx = 2 on a
\* buffer that holds two records at e_shoff.
C24_Witness ==
    /\ pc = "done" /\ args.op = "SectionHeaders::new"
    /\ args.header.e_shnum = 0 /\ args.header.e_shstrndx = 2
    /\ Len(reader.buf) = args.header.e_shoff + 2 * SumSeq(SectionHeaderWidths)
    /\ result.kind = "Return"

\* C29: for e_shnum > 0, e_shstrndx >= e_shnum included, loading the
\* section-name string table indexes no position outside the header list
\* and does not panic.
C29_StrtabIndexInRange ==
    (pc = "done" /\ args.op = "SectionHeaders::new"
       /\ args.header.e_shnum > 0) =>
          result # Panic("index out of bounds")

-----------------------------------------------------------------------------
(* relocs.rs: the progress of the loop of RelocationSection::new.          *)

\* C25: RelocationSection::new terminates for every header, sh_entsize = 0
\* with sh_size > 0 included: every record read moves the running offset
\* towards sh_size, so that the loop ends after finitely many records.
C25_OffsetAdvances ==
    [][(pc = "rs_loop" /\ pc' = "rs_loop") =>
          locals'.offset > locals.offset]_vars

-----------------------------------------------------------------------------
(* notes.rs: align_up and note_next_offset as functions of u64 values.     *)

\* align_up(size, align)
AL_AlignUp ==
    /\ pc = "al_start"
    /\ args.op = "align_up"
    /\ result' = align_up_u64(args.size, args.align, args.checks)
    /\ pc' = "done"
    /\ UNCHANGED <<args, locals, reader>>

\* note_next_offset(namesz, descsz, align)
AL_NextOffset ==
    /\ pc = "al_start"
    /\ args.op = "note_next_offset"
    /\ result' = note_next_offset_u64(args.namesz, args.descsz, args.align,
                                      args.checks)
    /\ pc' = "done"
    /\ UNCHANGED <<args, locals, reader>>

\* --- inputs of SpecAlign ---

\* Sizes up to MaxSize and alignments up to MaxAlign, one by one.
MaxSize == 12
MaxAlign == 9

\* The largest name and descriptor size a note can declare (u32::MAX).
U32Max == <<255, 255, 255, 255, 0, 0, 0, 0>>

SmallSizes == {U64(v) : v \in 0..MaxSize}
SmallAligns == {U64(v) : v \in 0..MaxAlign}

\* Alignments a header can declare in 64 bits: 2^32, 2^63, 2^64 - 16 and
\* 2^64 - 1.
WideAligns ==
    {<<0, 0, 0, 0, 1, 0, 0, 0>>, <<0, 0, 0, 0, 0, 0, 0, 128>>,
     <<240, 255, 255, 255, 255, 255, 255, 255>>, U64Max}

InitAlign ==
    /\ pc = "al_start"
    /\ locals = <<>>
    /\ result = NoResult
    /\ reader = [buf |-> <<>>, pos |-> 0]
    /\ \E checks \in BOOLEAN : \E align \in SmallAligns \cup WideAligns :
       \/ \E size \in SmallSizes :
             args = [op |-> "align_up", size |-> size, align |-> align,
                     checks |-> checks]
       \/ \E namesz, descsz \in SmallSizes \cup {U32Max} :
             args = [op |-> "note_next_offset", namesz |-> namesz,
                     descsz |-> descsz, align |-> align, checks |-> checks]

NextAlign == AL_AlignUp \/ AL_NextOffset

SpecAlign == InitAlign /\ [][NextAlign]_vars

\* C26: the position of new_from_file grows on every iteration by at least
\* the 12 bytes of a note header: note_next_offset(n, d, a) >= 12 + n + d
\* for all name sizes n, descriptor sizes d and alignments a.
C26_PositionAdvances ==
    (pc = "done" /\ args.op = "note_next_offset") =>
       /\ result.kind = "Return"
       /\ ~Less64(result.value,
                  WrappingAdd(WrappingAdd(U64(12), args.namesz), args.descsz))

\* C27: for sizes and alignments far from 64 bits, align_up(size, a) is the
\* least multiple of e that is >= size, where e is 4 for a <= 4 and a
\* otherwise, for every a and not only for the powers of two.
C27_LeastMultiple ==
    (pc = "done" /\ args.op = "align_up" /\ args.align \in SmallAligns) =>
       LET size == FromLE(args.size)
           a == FromLE(args.align)
           e == IF a <= 4 THEN 4 ELSE a
           least == CHOOSE m \in size..(size + e) :
                       /\ m % e = 0
                       /\ \A k \in size..(m - 1) : k % e # 0 IN
       result = Return(U64(least))

-----------------------------------------------------------------------------
(* dynamic.rs: the byte range DynamicSection::new reads.                   *)

\* C28: every pair DynamicSection::new pushes was read inside the bytes
\* [sh_offset, sh_offset + sh_size) of the dynamic section: the 16-byte
\* pairs read so far end at or before sh_offset + sh_size, and without a
\* Null tag in the range the loop stops at the end of the range.
C28_EntriesInsideSection ==
    (pc \in {"dy_loop", "dy_strtab"} /\ args.op = "DynamicSection::new") =>
       /\ SumSeq(DynamicEntryWidths) * Len(locals.entries)
             <= locals.header.sh_size
       /\ (pc = "dy_loop" /\ locals.entries # <<>>) =>
             reader.pos < locals.header.sh_offset + locals.header.sh_size

-----------------------------------------------------------------------------
(* main.rs: the decoders are called one after another on one reader, each  *)
(* entered with the cursor wherever an earlier call left it.               *)

\* Where a decoder starts and what its local variables are then.
EntryPc(op) ==
    CASE op = "SectionHeaders::new" -> "sh_start"
      [] op = "ProgramHeaders::new" -> "ph_start"
      [] op = "SymbolTable::new" -> "sy_start"
      [] op = "RelocationSection::new" -> "rs_loop"
      [] op = "DynamicSection::new" -> "dy_start"
      [] op = "NoteSection::new_from_file" -> "nf_start"
      [] op = "VersionSection::new" -> "vs_start"
      [] op = "Interpret::new" -> "in_loop"

EntryLocals(op) ==
    CASE op \in {"SectionHeaders::new", "ProgramHeaders::new"} ->
            [headers |-> <<>>, section_no |-> 0]
      [] op = "SymbolTable::new" -> [data |-> <<>>, i |-> 0]
      [] op = "RelocationSection::new" -> [entries |-> <<>>, offset |-> 0]
      [] op = "DynamicSection::new" -> [header |-> None, entries |-> <<>>]
      [] op = "NoteSection::new_from_file" -> [data |-> <<>>, pos |-> 0]
      [] op = "VersionSection::new" ->
            [header |-> None, offset |-> 0, data |-> <<>>, aux |-> <<>>,
             cnt |-> 0, verneed |-> None, aux_offset |-> 0, i |-> 0]
      [] op = "Interpret::new" -> [i |-> 0, path |-> <<>>]

\* What the first call returned, once the decoder is called again.
Earlier == IF "earlier" \in DOMAIN args THEN <<args.earlier>> ELSE <<>>

\* The cursor a later call finds: where the call before it left it, or
\* after the first byte.
CursorsLeft(r) == {r.pos, 1}

\* The decoder is called once more with the same arguments on the same
\* reader; what the first call returned is kept aside.
CallAgain ==
    /\ pc = "done"
    /\ Earlier = <<>>
    /\ \E p \in CursorsLeft(reader) :
          /\ reader' = [reader EXCEPT !.pos = p]
          /\ args' = [earlier |-> result, entry |-> p] @@ args
    /\ pc' = EntryPc(args.op)
    /\ locals' = EntryLocals(args.op)
    /\ result' = NoResult

\* The inputs of the decoders, with the cursor at the start of the buffer;
\* for the dynamic section pairs with the tags Needed and Null, for the
\* version section auxiliary records chained one after the other.
InitSequence ==
    \/ InitTables /\ reader.pos = 0
    \/ InitSymbols
    \/ InitRelocs
    \/ InitNotes
    \/ InitInterpret /\ reader.pos = 0
    \/ /\ pc = EntryPc("DynamicSection::new")
       /\ locals = EntryLocals("DynamicSection::new")
       /\ result = NoResult
       /\ \E k \in 0..MaxPairs :
          \E t \in [1..k -> {Encode(<<1, 16>>, DynamicEntryWidths),
                             Encode(<<0, 0>>, DynamicEntryWidths)}] :
          \E hs \in DynamicTables(0) :
             /\ reader = [buf |-> Concat(t), pos |-> 0]
             /\ args = [op |-> "DynamicSection::new",
                        headers |-> [headers |-> hs,
                                     strtab |-> [buffer |-> <<0, 97, 0>>]]]
    \/ /\ pc = EntryPc("VersionSection::new")
       /\ locals = EntryLocals("VersionSection::new")
       /\ result = NoResult
       /\ \E k \in 0..MaxAux : \E n \in {0, 16, 32} : \E info \in 0..MaxNeeds :
          \E hs \in VersionTables(0, info) :
             /\ reader =
                   [buf |-> Encode(<<1, k, 1, 16, n>>, VersionNeedWidths)
                              \o Concat([i \in 1..MaxSlots |->
                                    Encode(<<100 + i, 0, 0, 1, 16>>,
                                           VersionAuxWidths)]),
                    pos |-> 0]
             /\ args = [op |-> "VersionSection::new",
                        headers |-> [headers |-> hs,
                                     strtab |-> [buffer |-> VersionNames]]]

NextSequence ==
    \/ NextTables \/ NextSymbols \/ NextRelocs \/ NextDynamic \/ NextNotes
    \/ NextVersion \/ NextInterpret
    \/ CallAgain

SpecSequence == InitSequence /\ [][NextSequence]_vars

\* C22: what a decoder returns does not depend on the cursor it is entered
\* with: a call of the program-header, section-header, symbol, relocation,
\* dynamic, note, version or interpreter decoder that is entered with the
\* cursor an earlier call left returns what the earlier call, entered with
\* another cursor, returned for the same arguments.
C22_CursorIndependent ==
    pc = "done" => \A i \in 1..Len(Earlier) : Earlier[i] = result

\* A second call of SectionHeaders::new, entered with the cursor neither at
\* the start of the buffer nor at the table, has returned two headers.
C22_Witness ==
    /\ pc = "done"
    /\ Earlier # <<>>
    /\ args.op = "SectionHeaders::new"
    /\ args.entry \notin {0, args.header.e_shoff}
    /\ result.kind = "Return"
    /\ Len(result.value.headers) = 2
    /\ Len(result.value.strtab.buffer) > 0

-----------------------------------------------------------------------------
(* notes.rs: the descriptor of a GNU note of type 1.                       *)

\* C30: NoteDesc::gnu reads descriptor bytes only at indices below the
\* descriptor's length: a "GNU\0" note of type 1 (ABI information), with a
\* descriptor of fewer than 16 bytes as well, is decoded without a panic.
C30_GnuDescInBounds ==
    (pc = "done" /\ args.op = "Note::new"
       /\ args.name = NameGnu /\ args.type = 1) =>
          result.kind # "panic"

-----------------------------------------------------------------------------
(* notes.rs: MappedFiles::new on one descriptor.                           *)

\* a * k for k >= 1, as `*` computes it in u64: Return(value) or the panic
\* of the overflow check.
RECURSIVE Mul64(_, _, _)
Mul64(a, k, checks) ==
    IF k = 1 THEN Return(a)
    ELSE LET less == Mul64(a, k - 1, checks) IN
         IF less.kind = "panic" \/ (checks /\ AddOverflows(less.value, a))
         THEN Panic("attempt to multiply with overflow")
         ELSE Return(WrappingAdd(less.value, a))

\* `start` of read_filenames: (2 * addrsize) + (count * 3 * addrsize).
FilenamesStart(count, addrsize, checks) ==
    LET triple == Mul64(count, 3, checks) IN
    IF triple.kind = "panic" THEN triple
    ELSE LET triples == Mul64(triple.value, addrsize, checks) IN
         IF triples.kind = "panic" THEN triples
         ELSE Add64(U64(2 * addrsize), triples.value, checks)

\* MappedFiles::new on any count.  The count is a u64 and `start` is
\* computed in u64; a count above the length of the descriptor ends in the
\* read error of a name, every name taking a byte, wherever the wrapped
\* `start` points.
MappedFilesNewChecked(data, addrsize, checks) ==
    IF addrsize \notin {4, 8} \/ Len(data) < 2 * addrsize
    THEN MappedFilesNew(data, addrsize)
    ELSE LET count == BytesAt(data, 0, addrsize) \o Zeros(8 - addrsize)
             start == FilenamesStart(count, addrsize, checks) IN
         IF start.kind = "panic" THEN start
         ELSE IF Less64(U64(Len(data)), count) THEN Err(IOError)
         ELSE MappedFilesNew(data, addrsize)

\* MappedFiles::new(data, addrsize)
MF_New ==
    /\ pc = "mf_start"
    /\ result' = MappedFilesNewChecked(args.data, args.addrsize, args.checks)
    /\ pc' = "done"
    /\ UNCHANGED <<args, locals, reader>>

\* --- inputs of SpecMappedFiles ---

\* A descriptor declares, and holds, up to MaxFiles files.
MaxFiles == 2

\* The triple of the i-th file.
FileTriple(i, addrsize) ==
    Encode(<<4096 * i, 4096 * i + 4096, i>>, <<addrsize, addrsize, addrsize>>)

\* File names: "a", "" and "bc".
FileNames == {<<97>>, <<>>, <<98, 99>>}

\* Counts no descriptor can hold the files of: 2^61 and 2^64 - 1.
WideCounts == {<<0, 0, 0, 0, 0, 0, 0, 32>>, U64Max}

\* Descriptors: a count, the page size 4096, some triples, some names with
\* their NUL and possibly a name that lacks it.
MappedDescriptors(addrsize) ==
    LET body(t, names, tail) ==
           Concat([i \in 1..t |-> FileTriple(i, addrsize)])
             \o Concat([i \in 1..Len(names) |-> names[i] \o <<0>>]) \o tail
        bodies == {body(t, names, tail) :
                      t \in 0..MaxFiles,
                      names \in UNION {[1..m -> FileNames] : m \in 0..MaxFiles},
                      tail \in {<<>>, <<100>>}}
        counts == {ToLE(n, addrsize) : n \in 0..MaxFiles}
                    \cup (IF addrsize = 8 THEN WideCounts ELSE {}) IN
    {c \o ToLE(4096, addrsize) \o b : c \in counts, b \in bodies}
      \cup {<<>>, ToLE(1, addrsize)}

InitMappedFiles ==
    /\ pc = "mf_start"
    /\ locals = <<>>
    /\ result = NoResult
    /\ reader = [buf |-> <<>>, pos |-> 0]
    /\ \E addrsize \in {2, 4, 8} : \E checks \in BOOLEAN :
       \E data \in MappedDescriptors(IF addrsize = 8 THEN 8 ELSE 4) :
          args = [op |-> "MappedFiles::new", data |-> data,
                  addrsize |-> addrsize, checks |-> checks]

NextMappedFiles == MF_New

SpecMappedFiles == InitMappedFiles /\ [][NextMappedFiles]_vars

\* The NUL bytes of a descriptor at offset p or later (positions from 1).
NulsFrom(data, p) == {z \in (p + 1)..Len(data) : data[z] = 0}

\* The i-th of them.
NthNul(data, p, i) ==
    CHOOSE z \in NulsFrom(data, p) :
       Cardinality({y \in NulsFrom(data, p) : y < z}) = i - 1

\* C23: a mapped-files descriptor with the count n decodes to exactly n
\* entries, the i-th with (start, end, page_offset) from the i-th triple
\* after the two header words and as filename the i-th NUL-delimited string
\* of the block at byte 2 * addrsize + 3 * n * addrsize; a descriptor with
\* fewer than n NUL-terminated names or fewer than n triples gives an error
\* result, and so does an address size other than 4 and 8.
C23_MappedFilesDecoded ==
    (pc = "done" /\ args.op = "MappedFiles::new") =>
       LET data == args.data
           a == args.addrsize IN
       IF a \notin {4, 8} THEN result.kind = "Err"
       ELSE IF Len(data) < 2 * a THEN result.kind = "Err"
       ELSE
       LET n64 == BytesAt(data, 0, a) \o Zeros(8 - a) IN
       \* more files than bytes: the names cannot all be there
       IF Less64(U64(Len(data)), n64) THEN result.kind = "Err"
       ELSE
       LET n == FromLE(n64)
           p == 2 * a + 3 * n * a
           end(i) == NthNul(data, p, i)
           begin(i) == IF i = 1 THEN p + 1 ELSE NthNul(data, p, i - 1) + 1 IN
       IF Len(data) < p \/ Cardinality(NulsFrom(data, p)) < n
       THEN result.kind = "Err"
       ELSE /\ result.kind = "Ok"
            /\ result.value.count = n
            /\ Len(result.value.files) = n
            /\ \A i \in 1..n :
                  LET f == result.value.files[i]
                      at == 2 * a + 3 * a * (i - 1) IN
                  /\ f.start = ReadAt(data, at, a)
                  /\ f.end = ReadAt(data, at + a, a)
                  /\ f.page_offset = ReadAt(data, at + 2 * a, a)
                  /\ f.filename = SubSeq(data, begin(i), end(i) - 1)

=============================================================================
